---------------------------- MODULE Spec2Model ----------------------------
(***************************************************************************)
(* Model of Jinteia-Loot-Analyzer-FREE.py.                                 *)
(*                                                                         *)
(* The parts of the program that are modelled, each with a specification: *)
(*   - the window aggregator of LiveMonitorWorker (add_event,              *)
(*     compute_stats_from_window): SpecWindow, SpecCompute;                *)
(*   - the loop of LiveMonitorWorker.run with the outcomes of readline     *)
(*     left open: SpecReader (SpecReaderFair adds the fairness of the      *)
(*     thread's scheduling, SpecPublishFair that of the refresh and of     *)
(*     the Tk main loop); following a log file the game appends to:        *)
(*     SpecTail; following the wall clock for the refresh: SpecClock;      *)
(*   - the consumer LootMonitorApp (update_stats, the reclassification     *)
(*     handlers, start_monitor / stop_monitor) together with the worker    *)
(*     threads that post payloads to the Tk event queue: Spec;             *)
(*   - the settings of the window as start_monitor reads them:             *)
(*     SpecSettings;                                                       *)
(*   - one monitoring session from the log file to the rendered table:     *)
(*     SpecSession.                                                        *)
(*                                                                         *)
(* Timestamps are whole seconds (the log has a resolution of one second).  *)
(* Python floats are modelled as exact rationals.  A time span is the     *)
(* pair <<n, d>> standing for n / d (hours = <<elapsed, 3600>>), and the   *)
(* quotient x / span is kept unevaluated as [num |-> x, per |-> span].     *)
(* Python's None is the empty sequence, a present value v is <<v>>.        *)
(***************************************************************************)
EXTENDS Integers, Sequences, FiniteSets, TLC

\* ------------------------------------------------------------------------
\* Bounds of the model
\* ------------------------------------------------------------------------

\* number of add_event calls of one worker under SpecWindow
MaxEvents == 3

\* timestamps of the log lines under SpecWindow are 0, TsStep, ..., MaxTick * TsStep
MaxTick == 3

\* window_minutes is drawn from 1..MaxWindowMinutes
MaxWindowMinutes == 2

\* largest quantity of one log line under SpecCompute
MaxQty == 2

\* longest window handed to compute_stats_from_window under SpecCompute
MaxWindowLen == 3

\* longest window behind a snapshot that a worker publishes under Spec
MaxSnapLen == 3

\* lines of the log file under SpecTail
MaxLines == 3

\* refresh_secs_var is set to 1..MaxRefreshSecs
MaxRefreshSecs == 2

\* the wall clock runs from 0 to MaxClock seconds under SpecClock
MaxClock == 4

\* worker threads alive at one time under Spec
MaxThreads == 1

\* callbacks waiting in the Tk event queue under Spec
MaxPending == 1

\* pass count editor windows open at one time under Spec
MaxEditors == 2

\* the dropped count typed into a pass count editor is -1..MaxDropped
MaxDropped == 3

\* ------------------------------------------------------------------------
\* Static tables
\* ------------------------------------------------------------------------

SecondsPerHour == 3600

SecondsPerMinute == 60

\* log lines of the model are whole minutes apart
TsStep == SecondsPerMinute

None == <<>>

Some(v) == <<v>>

\* LootEvent.is_yang
is_yang(ev) == ev.item = "Yang"

Times == {k * TsStep : k \in 0..MaxTick}

\* LootEvent records fed to add_event under SpecWindow: add_event looks at
\* the timestamp only, two item names keep events of one timestamp apart
LootEvent == [ts : Times, quantity : {1}, item : {"Yang", "Shard"}]

\* LootEvent records of the windows handed to compute_stats_from_window
\* under SpecCompute
ComputeEvent == [ts : {0, TsStep}, quantity : 1..MaxQty,
                 item : {"Yang", "Shard", "Hellish Pass", "Razador's Chest"}]

DUNGEON_CHESTS ==
    ("Razador's Chest" :> "Razador") @@
    ("Nemere's Chest" :> "Nemere") @@
    ("Jotun Thrym's Chest" :> "Jotun") @@
    ("Hellgates Chest" :> "Blue Death")

PASS_COSTS ==
    ("Hellish Pass" :>
        [yang |-> 2000000,
         items |-> ("Fragment of a Pass [U-1]" :> 1) @@
                   ("Fragment of a Pass [U-2]" :> 1) @@ ("Shard" :> 400)]) @@
    ("Ice-cold Pass" :>
        [yang |-> 1500000,
         items |-> ("Fragment of a Pass [N-1]" :> 1) @@
                   ("Fragment of a Pass [N-2]" :> 1) @@ ("Shard" :> 200)]) @@
    ("Grass-covered Pass" :>
        [yang |-> 1500000,
         items |-> ("Fragment of a Pass [J-1]" :> 1) @@
                   ("Fragment of a Pass [J-2]" :> 1) @@ ("Shard" :> 200)]) @@
    ("Charred Pass" :>
        [yang |-> 1500000,
         items |-> ("Fragment of a Pass [R-1]" :> 1) @@
                   ("Fragment of a Pass [R-2]" :> 1) @@ ("Shard" :> 200)]) @@
    ("Owl Pass" :>
        [yang |-> 2000000,
         items |-> ("Piece of an Owl Pass [L]" :> 1) @@
                   ("Piece of an Owl Pass [R]" :> 1) @@ ("Shard" :> 500)]) @@
    ("Taliko's Paradise Pass" :>
        [yang |-> 2000000,
         items |-> ("Piece of a Papyrus [L]" :> 1) @@
                   ("Piece of a Papyrus [R]" :> 1) @@ ("Shard" :> 700)]) @@
    ("Demonic Key" :>
        [yang |-> 5000000,
         items |-> ("Piece of a Demonic Key [1]" :> 1) @@
                   ("Piece of a Demonic Key [2]" :> 1) @@ ("Shard" :> 1000)]) @@
    ("Nalantir's Tooth" :>
        [yang |-> 7500000,
         items |-> ("Broken Dragon Tooth [1]" :> 1) @@
                   ("Broken Dragon Tooth [2]" :> 1) @@ ("Shard" :> 1500)]) @@
    ("Map to the Abandoned Fortress" :>
        [yang |-> 7500000,
         items |-> ("Part of an Ancient Map [1]" :> 1) @@
                   ("Part of an Ancient Map [2]" :> 1) @@ ("Shard" :> 2000)])

\* the lines "You receive <quantity> <item>." of the log that the workers of
\* Spec tail, as parse_log_line returns them
LogFile ==
    << [ts |-> 0,          quantity |-> 1,   item |-> "Hellish Pass"],
       [ts |-> 0,          quantity |-> 1,   item |-> "Hellish Pass"],
       [ts |-> TsStep,     quantity |-> 500, item |-> "Yang"],
       [ts |-> TsStep,     quantity |-> 1,   item |-> "Ice-cold Pass"],
       [ts |-> 2 * TsStep, quantity |-> 300, item |-> "Shard"],
       [ts |-> 2 * TsStep, quantity |-> 1,   item |-> "Razador's Chest"] >>

\* the windows a worker can hold when it publishes: a run of consecutive
\* lines of the log (the lines after its start that were not evicted)
SnapWindows ==
    {SubSeq(LogFile, p[1], p[2]) :
        p \in {q \in (1..Len(LogFile)) \X (1..Len(LogFile)) :
                 q[1] <= q[2] /\ q[2] - q[1] < MaxSnapLen}}

\* the names that the reclassification handlers are called with
CallNames == {"Hellish Pass", "Ice-cold Pass", "Shard"}

\* the payload of run() when open() raises OSError
ErrorPayload == [error |-> "Cannot open log file"]

RECURSIVE SeqsUpTo(_, _)
\* the sequences over S of length 0..n
SeqsUpTo(S, n) ==
    IF n = 0 THEN {<<>>}
    ELSE LET shorter == SeqsUpTo(S, n - 1) IN
         shorter \cup {Append(w, e) : w \in {x \in shorter : Len(x) = n - 1}, e \in S}

\* ------------------------------------------------------------------------
\* State
\* ------------------------------------------------------------------------

VARIABLES
    \* LiveMonitorWorker (SpecWindow, SpecCompute)
    window,          \* self.window, a deque of LootEvent
    window_minutes,  \* self.window_minutes
    fixed_start_ts,  \* self.fixed_start_ts: None or Some(ts)
    unlimited,       \* self.unlimited
    stats,           \* the local stats of run(): the result of compute_stats_from_window
    \* LootMonitorApp (Spec)
    pass_states,          \* self.pass_states: name -> [total, crafted, dropped]
    pass_applied,         \* self.pass_applied
    base_yang,            \* self.base_yang
    crafting_yang_delta,  \* self.crafting_yang_delta
    base_items,           \* self.base_items: a dict, kept as a sequence of <<name, qty>>
    crafting_item_delta,  \* self.crafting_item_delta: item -> quantity
    base_item_rates,      \* self.base_item_rates: name -> per_hour
    data_hours,           \* self.data_hours, a time span
    net_yang,             \* self.net_yang
    net_yang_per_hour,    \* self.net_yang_per_hour (also in yang_per_hour_label)
    net_yang_per_minute,  \* the rate shown in yang_per_minute_label
    dungeon_runs,         \* self.dungeon_runs: dungeon -> count
    total_dungeon_runs,   \* self.total_dungeon_runs
    last_stats,           \* self.last_stats: None until the first update_stats
    tree,                 \* the rows of self.tree, as render_items inserts them
    worker,               \* self.worker: 0 for None, else the thread
    stop_events,          \* the threads whose stop_event is set
    editors,              \* the open pass count editor windows (open_pass_count_editor)
    \* the worker threads and the Tk event queue (Spec)
    pc,                   \* thread -> "idle" | "open" | "loop" | "iter" | "tick" |
                          \* "done" (run() returned) | "crashed" (run() raised)
    pending,              \* the callbacks queued by self.after(0, self.update_stats, stats)
    \* LiveMonitorWorker.run and the log file (SpecTail, SpecClock)
    from_start,      \* self.from_start
    refresh_secs,    \* self.refresh_secs
    log,             \* the lines of the log file, oldest first
    pos,             \* the lines of the file that f has behind it
    last_print,      \* the local last_print of run()
    clock,           \* the wall clock, in seconds (time.time(), datetime.now())
    \* the settings of LootMonitorApp (SpecSettings)
    time_preset_var,     \* self.time_preset_var
    from_start_var,      \* self.from_start_var
    window_minutes_var,  \* self.window_minutes_var
    refresh_secs_var,    \* self.refresh_secs_var
    \* history
    appended,        \* every event passed to add_event so far, in order
    lastOp           \* the operation of the last step and its arguments

\* the file, the position of the reader in it and the clock
run_vars == <<from_start, refresh_secs, log, pos, last_print, clock>>

\* the Tk variables behind the settings popup
settings_vars == <<time_preset_var, from_start_var, window_minutes_var, refresh_secs_var>>

\* the worker with its window, its file and the settings
window_vars == <<window, window_minutes, fixed_start_ts, unlimited, stats, appended, lastOp,
                 run_vars, settings_vars>>

\* the fields of LootMonitorApp
app_vars == <<pass_states, pass_applied, base_yang, crafting_yang_delta, base_items,
              crafting_item_delta, base_item_rates, data_hours, net_yang,
              net_yang_per_hour, net_yang_per_minute, dungeon_runs,
              total_dungeon_runs, last_stats, tree, worker, stop_events>>

vars == <<window_vars, app_vars, editors, pc, pending>>

Threads == 1..MaxThreads

\* ------------------------------------------------------------------------
\* LiveMonitorWorker.add_event
\* ------------------------------------------------------------------------

RECURSIVE PopLeftWhileNotNewer(_, _)
\* the eviction loop with <= in place of <: an event exactly at the cutoff goes
PopLeftWhileNotNewer(w, cutoff) ==
    IF w # <<>> /\ Head(w).ts <= cutoff
    THEN PopLeftWhileNotNewer(Tail(w), cutoff)
    ELSE w

\* every event older than the cutoff removed, wherever it stands in the deque
RemoveOlder(w, cutoff) == SelectSeq(w, LAMBDA e : e.ts >= cutoff)

RECURSIVE PopLeftWhileOlder(_, _)
\* while self.window and self.window[0].ts < cutoff: self.window.popleft()
PopLeftWhileOlder(w, cutoff) ==
    IF w # <<>> /\ Head(w).ts < cutoff
    THEN PopLeftWhileOlder(Tail(w), cutoff)
    ELSE w

\* cutoff = ev.ts - dt.timedelta(minutes=self.window_minutes)
TrailingCutoff(ev, wm) == ev.ts - wm * SecondsPerMinute

\* add_event that evicts by the trailing cutoff whether or not a fixed start
\* is set
AddEventTrailingOnly(w, ev, wm, fixed, unl) ==
    LET w1 == Append(w, ev) IN
    IF unl THEN w1
    ELSE PopLeftWhileOlder(w1, TrailingCutoff(ev, wm))

\* add_event that tests fixed_start_ts before unlimited
AddEventFixedFirst(w, ev, wm, fixed, unl) ==
    LET w1 == Append(w, ev) IN
    IF fixed # None THEN PopLeftWhileOlder(w1, fixed[1])
    ELSE IF unl THEN w1
    ELSE PopLeftWhileOlder(w1, TrailingCutoff(ev, wm))

\* LiveMonitorWorker.add_event
add_event(w, ev, wm, fixed, unl) ==
    LET w1 == Append(w, ev) IN
    IF unl THEN w1
    ELSE IF fixed # None
         THEN PopLeftWhileOlder(w1, fixed[1])
         ELSE PopLeftWhileOlder(w1, TrailingCutoff(ev, wm))

\* ------------------------------------------------------------------------
\* LiveMonitorWorker.compute_stats_from_window
\* ------------------------------------------------------------------------

RECURSIVE SumYang(_)
\* sum(ev.quantity for ev in events_list if ev.is_yang)
SumYang(w) ==
    IF w = <<>> THEN 0
    ELSE (IF is_yang(Head(w)) THEN Head(w).quantity ELSE 0) + SumYang(Tail(w))

\* items_qty[name] = qty in place of +=: a later line replaces the quantity
DictSet(d, name, qty) ==
    IF \E i \in 1..Len(d) : d[i][1] = name
    THEN [i \in 1..Len(d) |-> IF d[i][1] = name THEN <<name, qty>> ELSE d[i]]
    ELSE Append(d, <<name, qty>>)

\* items_qty[name] += qty on an insertion-ordered dict, kept as a sequence of
\* <<name, qty>> in order of first insertion
DictAdd(d, name, qty) ==
    IF \E i \in 1..Len(d) : d[i][1] = name
    THEN [i \in 1..Len(d) |-> IF d[i][1] = name THEN <<name, d[i][2] + qty>> ELSE d[i]]
    ELSE Append(d, <<name, qty>>)

RECURSIVE ItemsQty(_, _)
\* for ev in events_list: if not ev.is_yang: items_qty[ev.item] += ev.quantity
ItemsQty(w, d) ==
    IF w = <<>> THEN d
    ELSE ItemsQty(Tail(w),
                  IF is_yang(Head(w)) THEN d
                  ELSE DictAdd(d, Head(w).item, Head(w).quantity))

Max(a, b) == IF a >= b THEN a ELSE b

\* the elapsed time floored to one minute in place of one second
ElapsedFloorMinute(w) == Max(w[Len(w)].ts - w[1].ts, SecondsPerMinute)

\* elapsed = max((end - start).total_seconds(), 1)
Elapsed(w) == Max(w[Len(w)].ts - w[1].ts, 1)

\* hours = elapsed / 3600.0
Hours(elapsed) == <<elapsed, SecondsPerHour>>

\* minutes = elapsed / 60.0
Minutes(elapsed) == <<elapsed, SecondsPerMinute>>

\* int(round(n / d)) for n >= 0, d > 0: Python rounds halves to even
RoundDiv(n, d) ==
    LET q == n \div d
        r == n % d
    IN  IF 2 * r < d THEN q
        ELSE IF 2 * r > d THEN q + 1
        ELSE IF q % 2 = 0 THEN q ELSE q + 1

\* int(round(qty / span)) for a time span <<n, d>>
RoundedRate(qty, span) == RoundDiv(qty * span[2], span[1])

\* one step of a descending sort that puts x before the elements of equal key
InsertBeforeEqual(sorted, x) ==
    LET n == Cardinality({i \in 1..Len(sorted) : sorted[i][2] > x[2]}) IN
    SubSeq(sorted, 1, n) \o <<x>> \o SubSeq(sorted, n + 1, Len(sorted))

\* one step of a stable descending sort: x goes after every element whose
\* key is >= its own
InsertDesc(sorted, x) ==
    LET n == Cardinality({i \in 1..Len(sorted) : sorted[i][2] >= x[2]}) IN
    SubSeq(sorted, 1, n) \o <<x>> \o SubSeq(sorted, n + 1, Len(sorted))

RECURSIVE SortByQtyDesc(_, _)
\* items_list.sort(key=lambda x: x[1], reverse=True)
SortByQtyDesc(l, acc) ==
    IF l = <<>> THEN acc
    ELSE SortByQtyDesc(Tail(l), InsertDesc(acc, Head(l)))

\* compute_stats_from_window with all-zero stats in place of None for an
\* empty window
ZeroStatsWhenEmpty(w) ==
    IF w = <<>>
    THEN Some([start |-> 0, end |-> 0, hours |-> Hours(1), minutes |-> Minutes(1),
               total_yang |-> 0, yang_per_hour |-> 0, yang_per_minute |-> 0,
               items |-> <<>>])
    ELSE
      LET hours      == Hours(Elapsed(w))
          items_qty  == ItemsQty(w, <<>>)
          items_list == [i \in 1..Len(items_qty) |->
                           <<items_qty[i][1], items_qty[i][2],
                             RoundedRate(items_qty[i][2], hours)>>]
      IN  Some([start           |-> w[1].ts,
                end             |-> w[Len(w)].ts,
                hours           |-> hours,
                minutes         |-> Minutes(Elapsed(w)),
                total_yang      |-> SumYang(w),
                yang_per_hour   |-> RoundedRate(SumYang(w), hours),
                yang_per_minute |-> RoundedRate(SumYang(w), Minutes(Elapsed(w))),
                items           |-> SortByQtyDesc(items_list, <<>>)])

\* LiveMonitorWorker.compute_stats_from_window: None or Some(stats)
compute_stats_from_window(w) ==
    IF w = <<>> THEN None
    ELSE
      LET total_yang == SumYang(w)
          items_qty  == ItemsQty(w, <<>>)
          hours      == Hours(Elapsed(w))
          minutes    == Minutes(Elapsed(w))
          items_list == [i \in 1..Len(items_qty) |->
                           <<items_qty[i][1], items_qty[i][2],
                             RoundedRate(items_qty[i][2], hours)>>]
      IN  Some([start           |-> w[1].ts,
                end             |-> w[Len(w)].ts,
                hours           |-> hours,
                minutes         |-> minutes,
                total_yang      |-> total_yang,
                yang_per_hour   |-> RoundedRate(total_yang, hours),
                yang_per_minute |-> RoundedRate(total_yang, minutes),
                items           |-> SortByQtyDesc(items_list, <<>>)])

\* ------------------------------------------------------------------------
\* parse_log_line.  A line of the log is the record of what the parser
\* looks at: shape tells whether LOG_LINE_RE.search finds a match, hour,
\* minute and second are the digits of the time group, quantity and item
\* the last two groups.
\* ------------------------------------------------------------------------

\* datetime.strptime accepts the digits (it raises ValueError otherwise)
ValidTime(line) == line.hour <= 23 /\ line.minute <= 59 /\ line.second <= 59

\* parse_datetime_from_log, in seconds
parse_datetime_from_log(line) ==
    line.hour * SecondsPerHour + line.minute * SecondsPerMinute + line.second

\* parse_log_line that takes every line for a loot line
ParseWithoutMatch(line) ==
    [kind |-> "event",
     ev   |-> [ts       |-> parse_datetime_from_log(line),
               quantity |-> line.quantity,
               item     |-> line.item]]

\* parse_log_line: None for a line without a match, a LootEvent for a match,
\* and the ValueError of strptime leaves the function for a match with an
\* impossible time
parse_log_line(line) ==
    IF ~line.shape THEN [kind |-> "none"]
    ELSE IF ~ValidTime(line) THEN [kind |-> "raise"]
    ELSE [kind |-> "event",
          ev   |-> [ts       |-> parse_datetime_from_log(line),
                    quantity |-> line.quantity,
                    item     |-> line.item]]

\* ------------------------------------------------------------------------
\* LootMonitorApp: the fields as one record, and the handlers as functions
\* from the fields before the call to the fields after it
\* ------------------------------------------------------------------------

\* the fields of LootMonitorApp in this state
App ==
    [pass_states         |-> pass_states,
     pass_applied        |-> pass_applied,
     base_yang           |-> base_yang,
     crafting_yang_delta |-> crafting_yang_delta,
     base_items          |-> base_items,
     crafting_item_delta |-> crafting_item_delta,
     base_item_rates     |-> base_item_rates,
     data_hours          |-> data_hours,
     net_yang            |-> net_yang,
     net_yang_per_hour   |-> net_yang_per_hour,
     net_yang_per_minute |-> net_yang_per_minute,
     dungeon_runs        |-> dungeon_runs,
     total_dungeon_runs  |-> total_dungeon_runs,
     last_stats          |-> last_stats,
     tree                |-> tree,
     worker              |-> worker,
     stop_events         |-> stop_events]

\* the fields of LootMonitorApp in the next state are those of a
SetApp(a) ==
    /\ pass_states' = a.pass_states
    /\ pass_applied' = a.pass_applied
    /\ base_yang' = a.base_yang
    /\ crafting_yang_delta' = a.crafting_yang_delta
    /\ base_items' = a.base_items
    /\ crafting_item_delta' = a.crafting_item_delta
    /\ base_item_rates' = a.base_item_rates
    /\ data_hours' = a.data_hours
    /\ net_yang' = a.net_yang
    /\ net_yang_per_hour' = a.net_yang_per_hour
    /\ net_yang_per_minute' = a.net_yang_per_minute
    /\ dungeon_runs' = a.dungeon_runs
    /\ total_dungeon_runs' = a.total_dungeon_runs
    /\ last_stats' = a.last_stats
    /\ tree' = a.tree
    /\ worker' = a.worker
    /\ stop_events' = a.stop_events

\* an empty dict
EmptyDict == [k \in {} |-> 0]

\* d.get(k, default) on a dict kept as a function
Get(d, k, default) == IF k \in DOMAIN d THEN d[k] ELSE default

\* d.get(name, 0) on a dict kept as a sequence of <<name, qty>>
GetQty(d, name) ==
    IF \E i \in 1..Len(d) : d[i][1] = name
    THEN d[CHOOSE i \in 1..Len(d) : d[i][1] = name][2]
    ELSE 0

\* the keys of a dict kept as a sequence of <<name, qty>>
Keys(d) == {d[i][1] : i \in 1..Len(d)}

\* the time span 0.0
ZeroSpan == <<0, 1>>

\* the time span 1e-6
TinySpan == <<1, 1000000>>

\* the number 0 where the program later stores a rate
ZeroRate == [num |-> 0, per |-> None]

\* x / span, kept exact
Rate(x, span) == [num |-> x, per |-> span]

\* r1 - r2 for two quotients by the same time span
RateSub(r1, r2) == [num |-> r1.num - r2.num, per |-> r1.per]

\* int(n / d) for d > 0: truncation towards zero
TruncDiv(n, d) == IF n >= 0 THEN n \div d ELSE -((-n) \div d)

\* stop_monitor without "self.worker = None"
StopKeepsWorker(a) ==
    IF a.worker # 0
    THEN [a EXCEPT !.stop_events = @ \cup {a.worker}]
    ELSE a

\* LootMonitorApp.stop_monitor
stop_monitor(a) ==
    IF a.worker # 0
    THEN [a EXCEPT !.stop_events = @ \cup {a.worker}, !.worker = 0]
    ELSE a

\* recalc without the reset of lines 535-536: the costs of the crafted
\* passes are added to the deltas of before
RecalcAccumulating(a) ==
    LET ps == a.pass_states
        P  == {n \in DOMAIN ps : ps[n].crafted > 0 /\ n \in DOMAIN PASS_COSTS}
        YangSum[S \in SUBSET P] ==
            IF S = {} THEN a.crafting_yang_delta
            ELSE LET n == CHOOSE x \in S : TRUE
                 IN  ps[n].crafted * PASS_COSTS[n].yang + YangSum[S \ {n}]
        items == DOMAIN a.crafting_item_delta \cup UNION {DOMAIN PASS_COSTS[n].items : n \in P}
        ItemSum[S \in SUBSET P] ==
            IF S = {} THEN [i \in items |-> Get(a.crafting_item_delta, i, 0)]
            ELSE LET n    == CHOOSE x \in S : TRUE
                     rest == ItemSum[S \ {n}]
                 IN  [i \in items |->
                        rest[i] + (IF i \in DOMAIN PASS_COSTS[n].items
                                   THEN ps[n].crafted * PASS_COSTS[n].items[i]
                                   ELSE 0)]
    IN  [a EXCEPT !.crafting_yang_delta = YangSum[P],
                  !.crafting_item_delta = ItemSum[P]]

\* LootMonitorApp.recalc_crafting_deltas_from_passes
recalc_crafting_deltas_from_passes(a) ==
    LET ps == a.pass_states
        \* the entries that pass "crafted <= 0: continue" and "not cost: continue"
        P  == {n \in DOMAIN ps : ps[n].crafted > 0 /\ n \in DOMAIN PASS_COSTS}
        YangSum[S \in SUBSET P] ==
            IF S = {} THEN 0
            ELSE LET n == CHOOSE x \in S : TRUE
                 IN  ps[n].crafted * PASS_COSTS[n].yang + YangSum[S \ {n}]
        items == UNION {DOMAIN PASS_COSTS[n].items : n \in P}
        ItemSum[S \in SUBSET P] ==
            IF S = {} THEN [i \in items |-> 0]
            ELSE LET n    == CHOOSE x \in S : TRUE
                     rest == ItemSum[S \ {n}]
                 IN  [i \in items |->
                        rest[i] + (IF i \in DOMAIN PASS_COSTS[n].items
                                   THEN ps[n].crafted * PASS_COSTS[n].items[i]
                                   ELSE 0)]
    IN  [a EXCEPT !.crafting_yang_delta = YangSum[P],
                  !.crafting_item_delta = ItemSum[P]]

RECURSIVE render_items(_)
RECURSIVE RenderLoop(_, _, _)
RECURSIVE apply_pass_adjustment(_, _, _)

\* LootMonitorApp.apply_pass_adjustment
apply_pass_adjustment(a, pass_name, new_state) ==
    IF pass_name \notin DOMAIN PASS_COSTS THEN a
    ELSE
      LET cost      == PASS_COSTS[pass_name]
          owned_qty == GetQty(a.base_items, pass_name)
          currently_applied == pass_name \in a.pass_applied
          charged(sign) ==
              [a EXCEPT
                 !.crafting_yang_delta = @ + sign * cost.yang * owned_qty,
                 !.crafting_item_delta =
                     [i \in DOMAIN @ \cup DOMAIN cost.items |->
                        Get(@, i, 0) + sign * Get(cost.items, i, 0) * owned_qty]]
      IN  IF owned_qty <= 0 THEN a
          ELSE IF new_state = "Crafted" /\ ~currently_applied
               THEN render_items([charged(1) EXCEPT !.pass_applied = @ \cup {pass_name}])
          ELSE IF new_state = "Dropped" /\ currently_applied
               THEN render_items([charged(-1) EXCEPT !.pass_applied = @ \ {pass_name}])
          ELSE a

\* the body of "for idx, (name, qty) in enumerate(items_list)" of render_items
RenderLoop(a, items_list, idx) ==
    IF idx > Len(items_list) THEN a
    ELSE
      LET name == items_list[idx][1]
          qty  == items_list[idx][2]
          adjusted_qty  == qty - Get(a.crafting_item_delta, name, 0)
          base_per_hour == Get(a.base_item_rates, name, 0)
          crafted_qty   == Get(a.crafting_item_delta, name, 0)
          \* int(base_per_hour - crafted_qty / self.data_hours)
          net_per_hour ==
              IF a.data_hours[1] > 0
              THEN TruncDiv(base_per_hour * a.data_hours[1] - crafted_qty * a.data_hours[2],
                            a.data_hours[1])
              ELSE base_per_hour
          source ==
              IF name \in DOMAIN PASS_COSTS /\ name \in DOMAIN a.pass_states
              THEN Some(<<a.pass_states[name].crafted, a.pass_states[name].dropped>>)
              ELSE None
          a1 == IF name \in DOMAIN PASS_COSTS /\ name \notin DOMAIN a.pass_states
                THEN apply_pass_adjustment(
                         [a EXCEPT !.pass_states =
                              @ @@ (name :> [total |-> qty, crafted |-> qty, dropped |-> 0])],
                         name, "Crafted")
                ELSE a
          row == [name |-> name, source |-> source,
                  adjusted_qty |-> adjusted_qty, net_per_hour |-> net_per_hour]
      IN  RenderLoop([a1 EXCEPT !.tree = Append(@, row)], items_list, idx + 1)

\* render_items with the net quantity of a row clamped at 0
RenderItemsClamped(a) ==
    LET r == RenderLoop([a EXCEPT !.tree = <<>>], SortByQtyDesc(a.base_items, <<>>), 1) IN
    [r EXCEPT !.tree = [k \in 1..Len(r.tree) |->
                           [r.tree[k] EXCEPT !.adjusted_qty = Max(@, 0)]]]

\* LootMonitorApp.render_items
render_items(a) ==
    RenderLoop([a EXCEPT !.tree = <<>>], SortByQtyDesc(a.base_items, <<>>), 1)

RECURSIVE TallyWithoutTotal(_, _)
\* the dungeon loop without "self.total_dungeon_runs += qty"
TallyWithoutTotal(items, acc) ==
    IF items = <<>> THEN acc
    ELSE LET name == Head(items)[1]
             qty  == Head(items)[2]
         IN  TallyWithoutTotal(Tail(items),
               IF name \in DOMAIN DUNGEON_CHESTS
               THEN LET dungeon == DUNGEON_CHESTS[name]
                    IN  [runs  |-> [d \in DOMAIN acc.runs \cup {dungeon} |->
                                      IF d = dungeon THEN Get(acc.runs, d, 0) + qty
                                      ELSE acc.runs[d]],
                         total |-> acc.total]
               ELSE acc)

RECURSIVE DungeonTally(_, _)
\* the loop over base_items that fills dungeon_runs and total_dungeon_runs
DungeonTally(items, acc) ==
    IF items = <<>> THEN acc
    ELSE LET name == Head(items)[1]
             qty  == Head(items)[2]
         IN  DungeonTally(Tail(items),
               IF name \in DOMAIN DUNGEON_CHESTS
               THEN LET dungeon == DUNGEON_CHESTS[name]
                    IN  [runs  |-> [d \in DOMAIN acc.runs \cup {dungeon} |->
                                      IF d = dungeon THEN Get(acc.runs, d, 0) + qty
                                      ELSE acc.runs[d]],
                         total |-> acc.total + qty]
               ELSE acc)

\* the update of one PassState with delta added to total only
GrowTotalOnly(state, qty) ==
    LET delta == qty - state.total IN
    IF delta > 0
    THEN [state EXCEPT !.total = @ + delta]
    ELSE state

\* the update of one PassState as if the pass were seen for the first time
GrowAsNew(state, qty) ==
    LET delta == qty - state.total IN
    IF delta > 0
    THEN [total |-> qty, crafted |-> qty, dropped |-> 0]
    ELSE state

\* the else branch of "if name not in self.pass_states" in update_stats
GrowPassState(state, qty) ==
    LET delta == qty - state.total IN
    IF delta > 0
    THEN [state EXCEPT !.total = @ + delta, !.crafted = @ + delta]
    ELSE state

\* a PassState for every item of the snapshot, cost table or not
TrackEveryItem(ps, items) ==
    [n \in DOMAIN ps \cup Keys(items) |->
        IF n \notin Keys(items) THEN ps[n]
        ELSE IF n \notin DOMAIN ps
             THEN [total |-> GetQty(items, n), crafted |-> GetQty(items, n), dropped |-> 0]
             ELSE GrowPassState(ps[n], GetQty(items, n))]

\* "Initialize / update pass states" in update_stats
UpdatePassStates(ps, items) ==
    LET seen == {n \in Keys(items) : n \in DOMAIN PASS_COSTS} IN
    [n \in DOMAIN ps \cup seen |->
        IF n \notin seen THEN ps[n]
        ELSE IF n \notin DOMAIN ps
             THEN [total |-> GetQty(items, n), crafted |-> GetQty(items, n), dropped |-> 0]
             ELSE GrowPassState(ps[n], GetQty(items, n))]

\* LootMonitorApp.update_stats
update_stats(a, s) ==
    LET a0 == [a EXCEPT !.last_stats = Some(s)] IN
    IF "error" \in DOMAIN s THEN stop_monitor(a0)
    ELSE
      LET hours   == s.hours
          minutes == s.minutes
          base    == [i \in 1..Len(s.items) |-> <<s.items[i][1], s.items[i][2]>>]
          tally   == DungeonTally(base, [runs |-> EmptyDict, total |-> 0])
          elapsed_hours   == IF hours[1] > 0 THEN hours ELSE TinySpan
          elapsed_minutes == IF minutes[1] > 0 THEN minutes ELSE TinySpan
          a1 == [a0 EXCEPT
                   !.data_hours         = IF hours[1] > 0 THEN hours ELSE ZeroSpan,
                   !.base_items         = base,
                   !.dungeon_runs       = tally.runs,
                   !.total_dungeon_runs = tally.total,
                   !.pass_states        = UpdatePassStates(@, base),
                   !.base_item_rates    =
                       [n \in Keys(base) |->
                          s.items[CHOOSE i \in 1..Len(s.items) : s.items[i][1] = n][3]],
                   !.base_yang          = s.total_yang]
          \* the rates are computed before recalc_crafting_deltas_from_passes runs
          net_per_hour   == RateSub(Rate(a1.base_yang, elapsed_hours),
                                    Rate(a1.crafting_yang_delta, elapsed_hours))
          net_per_minute == RateSub(Rate(a1.base_yang, elapsed_minutes),
                                    Rate(a1.crafting_yang_delta, elapsed_minutes))
          a2 == recalc_crafting_deltas_from_passes(a1)
          a3 == [a2 EXCEPT
                   !.net_yang            = a2.base_yang - a2.crafting_yang_delta,
                   !.net_yang_per_hour   = net_per_hour,
                   !.net_yang_per_minute = net_per_minute]
      IN  render_items(a3)

\* set_pass_all_crafted with pass_states.setdefault(name, ...) in place of
\* pass_states.get(name) and the early return
SetDefaultAllCrafted(a, name) ==
    IF name \notin DOMAIN a.pass_states
    THEN [a EXCEPT !.pass_states =
              @ @@ (name :> [total |-> 0, crafted |-> 0, dropped |-> 0])]
    ELSE
      LET a1 == [a EXCEPT !.pass_states[name].crafted = a.pass_states[name].total,
                          !.pass_states[name].dropped = 0]
      IN  update_stats(recalc_crafting_deltas_from_passes(a1), a1.last_stats[1])

\* LootMonitorApp.set_pass_all_crafted
set_pass_all_crafted(a, name) ==
    IF name \notin DOMAIN a.pass_states THEN a
    ELSE
      LET a1 == [a EXCEPT !.pass_states[name].crafted = a.pass_states[name].total,
                          !.pass_states[name].dropped = 0]
      IN  update_stats(recalc_crafting_deltas_from_passes(a1), a1.last_stats[1])

\* LootMonitorApp.set_pass_all_dropped
set_pass_all_dropped(a, name) ==
    IF name \notin DOMAIN a.pass_states THEN a
    ELSE
      LET a1 == [a EXCEPT !.pass_states[name].crafted = 0,
                          !.pass_states[name].dropped = a.pass_states[name].total]
      IN  update_stats(recalc_crafting_deltas_from_passes(a1), a1.last_stats[1])

\* get_last_seen_pass without reversed(): the first tracked pass
get_first_seen_pass(a) ==
    LET tracked == {i \in 1..Len(a.base_items) : a.base_items[i][1] \in DOMAIN a.pass_states}
    IN  IF tracked = {} THEN None
        ELSE Some(a.base_items[CHOOSE i \in tracked : \A j \in tracked : i <= j][1])

\* LootMonitorApp.get_last_seen_pass: None or Some(name)
get_last_seen_pass(a) ==
    LET tracked == {i \in 1..Len(a.base_items) : a.base_items[i][1] \in DOMAIN a.pass_states}
    IN  IF tracked = {} THEN None
        ELSE Some(a.base_items[CHOOSE i \in tracked : \A j \in tracked : j <= i][1])

\* LootMonitorApp.increment_last_pass_dropped
increment_last_pass_dropped(a) ==
    LET last == get_last_seen_pass(a) IN
    IF last = None THEN a
    ELSE
      LET name == last[1] IN
      IF name \notin DOMAIN a.pass_states THEN a
      ELSE IF a.pass_states[name].crafted <= 0 THEN a
      ELSE
        LET a1 == [a EXCEPT !.pass_states[name].dropped = @ + 1,
                            !.pass_states[name].crafted = @ - 1]
        IN  update_stats(recalc_crafting_deltas_from_passes(a1), a1.last_stats[1])

\* the dict that the closure apply() of an editor window holds as "state":
\* the entry of pass_states while the editor is live, else the dict that
\* pass_states.clear() dropped, of which the model keeps the total
EditorTotal(a, e) == IF e.live THEN a.pass_states[e.name].total ELSE e.total

\* "if dropped < 0 or dropped > state['total']: return" in apply()
InRange(a, e, dropped) == ~(dropped < 0 \/ dropped > EditorTotal(a, e))

\* the closure apply() of open_pass_count_editor, on the fields of the app
apply(a, e, dropped) ==
    IF ~InRange(a, e, dropped) THEN a
    ELSE
      LET a1 == IF e.live
                THEN [a EXCEPT !.pass_states[e.name].dropped = dropped,
                               !.pass_states[e.name].crafted =
                                   a.pass_states[e.name].total - dropped]
                ELSE a
      IN  update_stats(recalc_crafting_deltas_from_passes(a1), a1.last_stats[1])

\* the reset at the head of start_monitor without self.pass_states.clear()
ResetKeepsPassStates(a) ==
    [a EXCEPT !.tree = <<>>,
              !.net_yang_per_minute = ZeroRate,
              !.net_yang = 0,
              !.net_yang_per_hour = ZeroRate,
              !.base_yang = 0,
              !.base_items = <<>>,
              !.base_item_rates = EmptyDict,
              !.data_hours = ZeroSpan,
              !.crafting_yang_delta = 0,
              !.crafting_item_delta = EmptyDict,
              !.pass_applied = {},
              !.dungeon_runs = EmptyDict,
              !.total_dungeon_runs = 0]

\* reset_stats_ui, reset_overlay_stats, reset_session_data and the clearing
\* of the dungeon counters at the head of start_monitor
reset_session(a) ==
    [a EXCEPT !.tree = <<>>,
              !.net_yang_per_minute = ZeroRate,
              !.net_yang = 0,
              !.net_yang_per_hour = ZeroRate,
              !.base_yang = 0,
              !.base_items = <<>>,
              !.base_item_rates = EmptyDict,
              !.data_hours = ZeroSpan,
              !.crafting_yang_delta = 0,
              !.crafting_item_delta = EmptyDict,
              !.pass_applied = {},
              !.pass_states = EmptyDict,
              !.dungeon_runs = EmptyDict,
              !.total_dungeon_runs = 0]

SecondsPerDay == 24 * SecondsPerHour

\* now.replace(hour=0, minute=0, second=0, microsecond=0)
StartOfDay(now) == now - (now % SecondsPerDay)

\* now.weekday(), Monday = 0: second 0 of the clock is a Monday, 00:00:00
Weekday(now) == (now \div SecondsPerDay) % 7

\* start_monitor: fixed_start_ts as the chain over the preset leaves it
PresetFixedStart(preset, now, minutes) ==
    IF preset = "1h" THEN Some(now - SecondsPerHour)
    ELSE IF preset = "today" THEN Some(StartOfDay(now))
    ELSE IF preset = "this_week" THEN Some(StartOfDay(now - Weekday(now) * SecondsPerDay))
    ELSE IF preset = "alltime" THEN None
    ELSE IF preset = "custom" THEN Some(now - minutes * SecondsPerMinute)
    ELSE None

\* start_monitor: unlimited as the chain over the preset leaves it
PresetUnlimited(preset) == preset = "alltime"

\* start_monitor that leaves self.from_start_var alone
KeepFromStart(preset, from_start_setting) == from_start_setting

\* start_monitor: self.from_start_var after the chain over the preset
PresetFromStart(preset, from_start_setting) ==
    IF preset = "alltime" THEN TRUE ELSE from_start_setting

\* the snapshots a worker can publish
SnapshotInputs == {compute_stats_from_window(w)[1] : w \in SnapWindows}

\* ------------------------------------------------------------------------
\* Initial values
\* ------------------------------------------------------------------------

\* LootMonitorApp.__init__, no thread started, nothing queued
InitApp ==
    /\ pass_states = EmptyDict
    /\ pass_applied = {}
    /\ base_yang = 0
    /\ crafting_yang_delta = 0
    /\ base_items = <<>>
    /\ crafting_item_delta = EmptyDict
    /\ base_item_rates = EmptyDict
    /\ data_hours = ZeroSpan
    /\ net_yang = 0
    /\ net_yang_per_hour = ZeroRate
    /\ net_yang_per_minute = ZeroRate
    /\ dungeon_runs = EmptyDict
    /\ total_dungeon_runs = 0
    /\ last_stats = None
    /\ tree = <<>>
    /\ worker = 0
    /\ stop_events = {}
    /\ editors = <<>>
    /\ pc = [t \in Threads |-> "idle"]
    /\ pending = <<>>

\* the settings as LootMonitorApp.__init__ creates them; the window of 60
\* minutes is scaled to 1
InitSettings ==
    /\ time_preset_var = "Custom"
    /\ from_start_var = FALSE
    /\ window_minutes_var = 1
    /\ refresh_secs_var = 1

\* an empty log file, nothing read, the clock at 0
InitRun ==
    /\ from_start = FALSE
    /\ refresh_secs = 1
    /\ log = <<>>
    /\ pos = 0
    /\ last_print = 0
    /\ clock = 0

\* LiveMonitorWorker.__init__ with the defaults of the settings
InitWorker ==
    /\ window = <<>>
    /\ window_minutes = 1
    /\ fixed_start_ts = None
    /\ unlimited = FALSE
    /\ stats = None
    /\ appended = <<>>

\* ------------------------------------------------------------------------
\* SpecWindow: the window of one worker under add_event
\* SpecCompute: compute_stats_from_window on a window
\* ------------------------------------------------------------------------

InitWindow ==
    /\ window = <<>>
    /\ window_minutes \in 1..MaxWindowMinutes
    /\ fixed_start_ts \in {None, Some(TsStep)}
    /\ unlimited \in BOOLEAN
    /\ stats = None
    /\ appended = <<>>
    /\ lastOp = [op |-> "init"]
    /\ InitRun
    /\ InitSettings
    /\ InitApp

\* one line read and parsed by run(): self.add_event(ev)
AddEvent(ev) ==
    /\ Len(appended) < MaxEvents
    /\ window' = add_event(window, ev, window_minutes, fixed_start_ts, unlimited)
    /\ appended' = Append(appended, ev)
    /\ lastOp' = [op |-> "add_event"]
    /\ UNCHANGED <<window_minutes, fixed_start_ts, unlimited, stats>>
    /\ UNCHANGED <<run_vars, settings_vars, app_vars, editors, pc, pending>>

NextWindow == \E ev \in LootEvent : AddEvent(ev)

SpecWindow == InitWindow /\ [][NextWindow]_vars

\* a window that an unlimited worker holds after reading its lines
InitCompute ==
    /\ window \in SeqsUpTo(ComputeEvent, MaxWindowLen)
    /\ window_minutes = 1
    /\ fixed_start_ts = None
    /\ unlimited = TRUE
    /\ stats = None
    /\ appended = window
    /\ lastOp = [op |-> "init"]
    /\ InitRun
    /\ InitSettings
    /\ InitApp

\* stats = self.compute_stats_from_window() in run()
ComputeStats ==
    /\ lastOp.op = "init"
    /\ stats' = compute_stats_from_window(window)
    /\ lastOp' = [op |-> "compute_stats_from_window"]
    /\ UNCHANGED <<window, window_minutes, fixed_start_ts, unlimited, appended>>
    /\ UNCHANGED <<run_vars, settings_vars, app_vars, editors, pc, pending>>

NextCompute == ComputeStats

SpecCompute == InitCompute /\ [][NextCompute]_vars

\* ------------------------------------------------------------------------
\* SpecReader: one LiveMonitorWorker thread running run() on a file that
\* opens or not, with its window; pending holds the payloads passed to
\* update_callback that the Tk main loop has not run yet.  The consumer is
\* not followed here.
\* ------------------------------------------------------------------------

\* the thread of SpecReader
Reader == 1

\* the lines that the file of SpecReader can hold: a line that is no loot
\* line, a loot line with an impossible time, loot lines of one item
ReaderLines ==
    {[shape |-> FALSE, hour |-> 0, minute |-> 0, second |-> 0, quantity |-> 1, item |-> "Shard"],
     [shape |-> TRUE, hour |-> 24, minute |-> 0, second |-> 0, quantity |-> 1, item |-> "Shard"]}
    \cup {[shape |-> TRUE, hour |-> 0, minute |-> k, second |-> 0, quantity |-> 1, item |-> "Shard"] :
             k \in 0..MaxTick}

\* what f.readline() gives in one iteration: no new data or a line
ReadOutcomes == {None} \cup {Some(line) : line \in ReaderLines}

\* the reader is in its loop
Running == pc[Reader] \in {"loop", "iter", "tick"}

\* lastOp.since_stop counts what the reader did after stop_event.set()
Count(since_stop, field) ==
    IF since_stop = None THEN None
    ELSE Some([since_stop[1] EXCEPT ![field] = @ + 1])

InitReader ==
    /\ window = <<>>
    /\ window_minutes \in 1..MaxWindowMinutes
    /\ fixed_start_ts \in {None, Some(TsStep)}
    /\ unlimited \in BOOLEAN
    /\ stats = None
    /\ appended = <<>>
    /\ lastOp = [op |-> "init", since_stop |-> None, published_at |-> <<>>]
    /\ InitRun
    /\ InitSettings
    /\ InitApp

\* self.worker.start(): the thread enters run()
ReaderStart ==
    /\ pc[Reader] = "idle"
    /\ pc' = [pc EXCEPT ![Reader] = "open"]
    /\ UNCHANGED <<window_vars, app_vars, editors, pending>>

\* run(): open() raises OSError: one error payload, then return
ReaderOpenFails ==
    /\ pc[Reader] = "open"
    /\ Len(pending) < MaxPending
    /\ pending' = Append(pending, ErrorPayload)
    /\ pc' = [pc EXCEPT ![Reader] = "done"]
    /\ UNCHANGED <<window_vars, app_vars, editors>>

\* run() that never seeks
ReaderOpensAtStart ==
    /\ pc[Reader] = "open"
    /\ pos' = 0
    /\ last_print' = clock
    /\ pc' = [pc EXCEPT ![Reader] = "loop"]
    /\ UNCHANGED <<window, window_minutes, fixed_start_ts, unlimited, stats, appended, lastOp>>
    /\ UNCHANGED <<from_start, refresh_secs, log, clock>>
    /\ UNCHANGED <<settings_vars, app_vars, editors, pending>>

\* run(): the file is open; if not self.from_start: f.seek(0, os.SEEK_END);
\* last_print = time.time()
ReaderOpens ==
    /\ pc[Reader] = "open"
    /\ pos' = IF from_start THEN 0 ELSE Len(log)
    /\ last_print' = clock
    /\ pc' = [pc EXCEPT ![Reader] = "loop"]
    /\ UNCHANGED <<window, window_minutes, fixed_start_ts, unlimited, stats, appended, lastOp>>
    /\ UNCHANGED <<from_start, refresh_secs, log, clock>>
    /\ UNCHANGED <<settings_vars, app_vars, editors, pending>>

\* self.stop_event.set() by the main thread
ReaderStopRequested ==
    /\ Running
    /\ Reader \notin stop_events
    /\ SetApp([App EXCEPT !.stop_events = @ \cup {Reader}])
    /\ lastOp' = [lastOp EXCEPT !.since_stop = Some([appended |-> 0, published |-> 0])]
    /\ UNCHANGED <<window, window_minutes, fixed_start_ts, unlimited, stats, appended>>
    /\ UNCHANGED <<run_vars, settings_vars, editors, pc, pending>>

\* run() ignoring the stop event
ReaderIgnoresStop ==
    /\ pc[Reader] = "loop"
    /\ pc' = [pc EXCEPT ![Reader] = "iter"]
    /\ UNCHANGED <<window_vars, app_vars, editors, pending>>

\* run(): "while not self.stop_event.is_set()", then f.close()
ReaderChecksStop ==
    /\ pc[Reader] = "loop"
    /\ pc' = [pc EXCEPT ![Reader] = IF Reader \in stop_events THEN "done" ELSE "iter"]
    /\ UNCHANGED <<window_vars, app_vars, editors, pending>>

\* run(): the iteration that read line (None: no new data): ev =
\* parse_log_line(line); if ev: self.add_event(ev).  The ValueError of
\* strptime is caught nowhere: it ends the thread before f.close().
ReadIteration(line) ==
    LET r == IF line = None THEN [kind |-> "none"] ELSE parse_log_line(line[1])
        added == r.kind = "event" /\ Len(appended) < MaxEvents
    IN  /\ IF added
           THEN /\ window' = add_event(window, r.ev, window_minutes, fixed_start_ts, unlimited)
                /\ appended' = Append(appended, r.ev)
           ELSE UNCHANGED <<window, appended>>
        /\ pc' = [pc EXCEPT ![Reader] = IF r.kind = "raise" THEN "crashed" ELSE "tick"]
        /\ lastOp' = [lastOp EXCEPT !.op = "readline",
                                    !.since_stop = IF added THEN Count(@, "appended") ELSE @]
        /\ UNCHANGED <<window_minutes, fixed_start_ts, unlimited, stats>>
        /\ UNCHANGED <<settings_vars, app_vars, editors, pending>>

\* run(): line = f.readline() of a file that is not followed: any outcome
ReaderReadsLine ==
    /\ pc[Reader] = "iter"
    /\ \E line \in ReadOutcomes : ReadIteration(line)
    /\ UNCHANGED run_vars

\* run(): the body of "if now_ts - last_print >= self.refresh_secs" apart
\* from last_print: stats = self.compute_stats_from_window(); if stats is
\* not None: self.update_callback(stats).  lastOp.published_at collects
\* the clock of every snapshot when the clock is followed (at # None).
RefreshIteration(at) ==
    /\ Len(pending) < MaxPending
    /\ stats' = compute_stats_from_window(window)
    /\ pending' = IF stats' # None THEN Append(pending, stats'[1]) ELSE pending
    /\ pc' = [pc EXCEPT ![Reader] = "loop"]
    /\ lastOp' = [lastOp EXCEPT !.op = "compute_stats_from_window",
                                !.since_stop = IF stats' # None
                                               THEN Count(@, "published") ELSE @,
                                !.published_at = IF stats' # None THEN @ \o at ELSE @]
    /\ UNCHANGED <<window, window_minutes, fixed_start_ts, unlimited, appended>>
    /\ UNCHANGED <<settings_vars, app_vars, editors>>

\* run(): now_ts - last_print < refresh_secs on a clock that is not
\* followed, nothing is computed
ReaderSkipsRefresh ==
    /\ pc[Reader] = "tick"
    /\ pc' = [pc EXCEPT ![Reader] = "loop"]
    /\ UNCHANGED <<window_vars, app_vars, editors, pending>>

\* run(): the refresh interval has passed on a clock that is not followed
ReaderRefreshes ==
    /\ pc[Reader] = "tick"
    /\ RefreshIteration(None)
    /\ UNCHANGED run_vars

\* the Tk main loop takes the oldest queued callback
ReaderCallbackRuns ==
    /\ pending # <<>>
    /\ pending' = Tail(pending)
    /\ UNCHANGED <<window_vars, app_vars, editors, pc>>

NextReader ==
    \/ ReaderStart
    \/ ReaderOpenFails
    \/ ReaderOpens
    \/ ReaderStopRequested
    \/ ReaderChecksStop
    \/ ReaderReadsLine
    \/ ReaderSkipsRefresh
    \/ ReaderRefreshes
    \/ ReaderCallbackRuns

SpecReader == InitReader /\ [][NextReader]_vars

\* run() was left: by return after f.close(), or after the error payload,
\* or by the ValueError of strptime
Terminated == pc[Reader] \in {"done", "crashed"}

\* the thread of the reader is scheduled again and again: the loop test,
\* f.readline() with time.sleep(0.2), and the refresh test each return
SpecReaderFair ==
    /\ SpecReader
    /\ WF_vars(ReaderChecksStop)
    /\ WF_vars(ReaderReadsLine)
    /\ WF_vars(ReaderSkipsRefresh \/ ReaderRefreshes)

\* the reader's thread and the Tk main loop are scheduled again and again,
\* and the wall clock advances, so that a reader that stays in its loop
\* finds "now_ts - last_print >= self.refresh_secs" true again and again
SpecPublishFair ==
    /\ SpecReader
    /\ WF_vars(ReaderChecksStop)
    /\ WF_vars(ReaderReadsLine)
    /\ WF_vars(ReaderSkipsRefresh \/ ReaderRefreshes)
    /\ SF_vars(ReaderRefreshes)
    /\ WF_vars(ReaderCallbackRuns)

\* ------------------------------------------------------------------------
\* SpecTail: the reader of SpecReader on a log file that is followed.  The
\* lines that are in the file before the reader starts name the item
\* "Yang", the lines that the game writes later name the item "Shard".
\* ------------------------------------------------------------------------

\* the lines in the file before the reader starts: no loot line, a loot line
\* with an impossible time, a loot line
OldLines ==
    {[shape |-> FALSE, hour |-> 0, minute |-> 0, second |-> 0, quantity |-> 1, item |-> "Yang"],
     [shape |-> TRUE, hour |-> 24, minute |-> 0, second |-> 0, quantity |-> 1, item |-> "Yang"],
     [shape |-> TRUE, hour |-> 0, minute |-> 0, second |-> 0, quantity |-> 1, item |-> "Yang"]}

\* the lines that the game writes while the reader runs
NewLines ==
    {[shape |-> FALSE, hour |-> 0, minute |-> 0, second |-> 0, quantity |-> 1, item |-> "Shard"],
     [shape |-> TRUE, hour |-> 24, minute |-> 0, second |-> 0, quantity |-> 1, item |-> "Shard"]}
    \cup {[shape |-> TRUE, hour |-> 0, minute |-> k, second |-> 0, quantity |-> 1, item |-> "Shard"] :
             k \in {0, 2}}

InitTail ==
    /\ window = <<>>
    /\ window_minutes = 1
    /\ fixed_start_ts = None
    /\ unlimited \in BOOLEAN
    /\ stats = None
    /\ appended = <<>>
    /\ lastOp = [op |-> "init", since_stop |-> None, published_at |-> <<>>]
    /\ from_start \in BOOLEAN
    /\ refresh_secs = 1
    /\ log \in SeqsUpTo(OldLines, MaxLines - 1)
    /\ pos = 0
    /\ last_print = 0
    /\ clock = 0
    /\ InitSettings
    /\ InitApp

\* the game appends a line to the log file that the reader has opened
GameWritesLine(line) ==
    /\ pc[Reader] \notin {"idle", "open"}
    /\ log' = Append(log, line)
    /\ UNCHANGED <<window, window_minutes, fixed_start_ts, unlimited, stats, appended, lastOp>>
    /\ UNCHANGED <<from_start, refresh_secs, pos, last_print, clock>>
    /\ UNCHANGED <<settings_vars, app_vars, editors, pc, pending>>

\* run(): line = f.readline() gives the next line of the file, or nothing at
\* its end
TailReadsLine ==
    /\ pc[Reader] = "iter"
    /\ ReadIteration(IF pos < Len(log) THEN Some(log[pos + 1]) ELSE None)
    /\ pos' = IF pos < Len(log) THEN pos + 1 ELSE pos
    /\ UNCHANGED <<from_start, refresh_secs, log, last_print, clock>>

NextTail ==
    \/ ReaderStart
    \/ ReaderOpenFails
    \/ ReaderOpens
    \/ ReaderStopRequested
    \/ ReaderChecksStop
    \/ TailReadsLine
    \/ ReaderSkipsRefresh
    \/ ReaderRefreshes
    \/ ReaderCallbackRuns
    \/ \E line \in NewLines : Len(log) < MaxLines /\ GameWritesLine(line)

SpecTail == InitTail /\ [][NextTail]_vars

\* ------------------------------------------------------------------------
\* SpecClock: the reader of SpecTail on a file that is read from its first
\* line and not written any more, with the wall clock followed.
\* ------------------------------------------------------------------------

InitClock ==
    /\ window = <<>>
    /\ window_minutes = 1
    /\ fixed_start_ts = None
    /\ unlimited \in BOOLEAN
    /\ stats = None
    /\ appended = <<>>
    /\ lastOp = [op |-> "init", since_stop |-> None, published_at |-> <<>>]
    /\ from_start = TRUE
    /\ refresh_secs \in 1..MaxRefreshSecs
    /\ log \in SeqsUpTo(NewLines, MaxLines - 1)
    /\ pos = 0
    /\ last_print = 0
    /\ clock = 0
    /\ InitSettings
    /\ InitApp

\* a second passes
ClockTicks ==
    /\ clock < MaxClock
    /\ clock' = clock + 1
    /\ UNCHANGED <<window, window_minutes, fixed_start_ts, unlimited, stats, appended, lastOp>>
    /\ UNCHANGED <<from_start, refresh_secs, log, pos, last_print>>
    /\ UNCHANGED <<settings_vars, app_vars, editors, pc, pending>>

\* the test that is always true
AlwaysDue(now_ts, last, secs) == TRUE

\* run(): now_ts - last_print >= self.refresh_secs
RefreshDue(now_ts, last, secs) == now_ts - last >= secs

\* run(): now_ts = time.time(); the test fails, nothing is computed
ClockSkipsRefresh ==
    /\ pc[Reader] = "tick"
    /\ ~RefreshDue(clock, last_print, refresh_secs)
    /\ pc' = [pc EXCEPT ![Reader] = "loop"]
    /\ UNCHANGED <<window_vars, app_vars, editors, pending>>

\* run(): now_ts = time.time(); the test holds: last_print = now_ts, then
\* the snapshot is computed and published
ClockRefreshes ==
    /\ pc[Reader] = "tick"
    /\ RefreshDue(clock, last_print, refresh_secs)
    /\ last_print' = clock
    /\ RefreshIteration(Some(clock))
    /\ UNCHANGED <<from_start, refresh_secs, log, pos, clock>>

NextClock ==
    \/ ClockTicks
    \/ ReaderStart
    \/ ReaderOpenFails
    \/ ReaderOpens
    \/ ReaderStopRequested
    \/ ReaderChecksStop
    \/ TailReadsLine
    \/ ClockSkipsRefresh
    \/ ClockRefreshes
    \/ ReaderCallbackRuns

SpecClock == InitClock /\ [][NextClock]_vars

\* ------------------------------------------------------------------------
\* Spec: LootMonitorApp, its worker threads and the Tk event queue.  The
\* window of a worker is not followed here: a worker publishes any of
\* SnapshotInputs, and the snapshot is picked when the callback runs.
\* ------------------------------------------------------------------------

Init ==
    /\ InitApp
    /\ InitSettings
    /\ InitWorker
    /\ InitRun
    /\ lastOp = [op |-> "init"]

\* the editor windows keep the dicts that pass_states.clear() drops
Orphaned(eds, ps) ==
    [i \in 1..Len(eds) |->
        IF eds[i].live
        THEN [name |-> eds[i].name, live |-> FALSE, total |-> ps[eds[i].name].total]
        ELSE eds[i]]

\* a thread that was not started yet or has left run()
NotRunning == {"idle", "done", "crashed"}

\* LootMonitorApp.start_monitor, with a log path that names a file: the
\* session is reset, the worker is created from the settings and started
StartMonitor(t) ==
    /\ worker = 0
    /\ pc[t] \in NotRunning
    /\ \A u \in Threads : u < t => pc[u] \notin NotRunning
    /\ SetApp([reset_session(App) EXCEPT !.worker = t, !.stop_events = @ \ {t}])
    /\ editors' = Orphaned(editors, pass_states)
    /\ from_start_var' = PresetFromStart(time_preset_var, from_start_var)
    /\ window' = <<>>
    /\ window_minutes' = window_minutes_var
    /\ refresh_secs' = refresh_secs_var
    /\ from_start' = from_start_var'
    /\ fixed_start_ts' = PresetFixedStart(time_preset_var, clock, window_minutes_var)
    /\ unlimited' = PresetUnlimited(time_preset_var)
    /\ stats' = None
    /\ appended' = <<>>
    /\ pc' = [pc EXCEPT ![t] = "open"]
    /\ UNCHANGED <<log, pos, last_print, clock, lastOp, pending>>
    /\ UNCHANGED <<time_preset_var, window_minutes_var, refresh_secs_var>>

\* LootMonitorApp.stop_monitor from the Stop button
StopMonitor ==
    /\ worker # 0
    /\ SetApp(stop_monitor(App))
    /\ UNCHANGED <<window_vars, editors, pc, pending>>

\* run(): open() raises OSError, the error payload goes to the callback
WorkerOpenFails(t) ==
    /\ pc[t] = "open"
    /\ Len(pending) < MaxPending
    /\ pending' = Append(pending, "error")
    /\ pc' = [pc EXCEPT ![t] = "idle"]
    /\ UNCHANGED <<window_vars, app_vars, editors>>

\* run(): the file is open
WorkerOpens(t) ==
    /\ pc[t] = "open"
    /\ pc' = [pc EXCEPT ![t] = "loop"]
    /\ UNCHANGED <<window_vars, app_vars, editors, pending>>

\* run(): "while not self.stop_event.is_set()", then f.close()
WorkerChecksStop(t) ==
    /\ pc[t] = "loop"
    /\ pc' = [pc EXCEPT ![t] = IF t \in stop_events THEN "idle" ELSE "iter"]
    /\ UNCHANGED <<window_vars, app_vars, editors, pending>>

\* run(): one iteration that publishes stats through update_callback
WorkerPublishes(t) ==
    /\ pc[t] = "iter"
    /\ Len(pending) < MaxPending
    /\ pending' = Append(pending, "stats")
    /\ pc' = [pc EXCEPT ![t] = "loop"]
    /\ UNCHANGED <<window_vars, app_vars, editors>>

\* run(): one iteration without a publish
WorkerIterates(t) ==
    /\ pc[t] = "iter"
    /\ pc' = [pc EXCEPT ![t] = "loop"]
    /\ UNCHANGED <<window_vars, app_vars, editors, pending>>

\* the Tk main loop runs the callback queued by schedule_update_stats
UpdateStats ==
    /\ pending # <<>>
    /\ \E s \in (IF Head(pending) = "error" THEN {ErrorPayload} ELSE SnapshotInputs) :
          SetApp(update_stats(App, s))
    /\ pending' = Tail(pending)
    /\ UNCHANGED <<window_vars, editors, pc>>

\* menu "All Crafted"
SetPassAllCrafted(name) ==
    /\ SetApp(set_pass_all_crafted(App, name))
    /\ UNCHANGED <<window_vars, editors, pc, pending>>

\* menu "All Dropped"
SetPassAllDropped(name) ==
    /\ SetApp(set_pass_all_dropped(App, name))
    /\ UNCHANGED <<window_vars, editors, pc, pending>>

\* button "+1 Dropped" of the overlay
IncrementLastPassDropped ==
    /\ SetApp(increment_last_pass_dropped(App))
    /\ UNCHANGED <<window_vars, editors, pc, pending>>

\* menu "Custom...": LootMonitorApp.open_pass_count_editor
OpenPassCountEditor(name) ==
    /\ Len(editors) < MaxEditors
    /\ editors' = IF name \in DOMAIN pass_states
                  THEN Append(editors, [name |-> name, live |-> TRUE, total |-> 0])
                  ELSE editors
    /\ UNCHANGED <<window_vars, app_vars, pc, pending>>

\* button "Apply" of the editor window i with the typed count dropped
EditorApply(i, dropped) ==
    /\ i \in 1..Len(editors)
    /\ SetApp(apply(App, editors[i], dropped))
    /\ editors' = IF InRange(App, editors[i], dropped)
                  THEN SubSeq(editors, 1, i - 1) \o SubSeq(editors, i + 1, Len(editors))
                  ELSE editors
    /\ UNCHANGED <<window_vars, pc, pending>>

Next ==
    \/ \E t \in Threads : StartMonitor(t)
    \/ StopMonitor
    \/ \E t \in Threads : WorkerOpenFails(t)
    \/ \E t \in Threads : WorkerOpens(t)
    \/ \E t \in Threads : WorkerChecksStop(t)
    \/ \E t \in Threads : WorkerPublishes(t)
    \/ \E t \in Threads : WorkerIterates(t)
    \/ UpdateStats
    \/ \E name \in CallNames : SetPassAllCrafted(name)
    \/ \E name \in CallNames : SetPassAllDropped(name)
    \/ IncrementLastPassDropped
    \/ \E name \in CallNames : OpenPassCountEditor(name)
    \/ \E i \in 1..MaxEditors, dropped \in (-1)..MaxDropped : EditorApply(i, dropped)

Spec == Init /\ [][Next]_vars

\* ------------------------------------------------------------------------
\* SpecSettings: the settings popup, start_monitor / stop_monitor and the
\* window of the worker that start_monitor creates.  The snapshots of the
\* worker are not followed here.
\* ------------------------------------------------------------------------

\* the values that the buttons of the settings popup pass to set_time_preset
PresetButtons == {"1h", "today", "this_week", "alltime", "custom"}

\* the wall clock when the program starts: a Monday at 00:01:00, or the
\* Tuesday after it at 01:01:00
StartClocks == {TsStep, SecondsPerDay + SecondsPerHour + TsStep}

\* the loot events in the file of SpecSettings
SettingsEvent == {e \in LootEvent : e.item = "Shard" /\ e.ts \in {0, 2 * TsStep}}

InitSettingsSpec ==
    /\ InitApp
    /\ InitSettings
    /\ InitWorker
    /\ from_start = FALSE
    /\ refresh_secs = 1
    /\ log = <<>>
    /\ pos = 0
    /\ last_print = 0
    /\ clock \in StartClocks
    /\ lastOp = [op |-> "init"]

\* a button of the time range bar: LootMonitorApp.set_time_preset
SetTimePreset(value) ==
    /\ time_preset_var' = value
    /\ UNCHANGED <<window, window_minutes, fixed_start_ts, unlimited, stats, appended, lastOp>>
    /\ UNCHANGED <<run_vars, from_start_var, window_minutes_var, refresh_secs_var>>
    /\ UNCHANGED <<app_vars, editors, pc, pending>>

\* the checkbox "Read from beginning"
ToggleFromStart ==
    /\ from_start_var' = ~from_start_var
    /\ UNCHANGED <<window, window_minutes, fixed_start_ts, unlimited, stats, appended, lastOp>>
    /\ UNCHANGED <<run_vars, time_preset_var, window_minutes_var, refresh_secs_var>>
    /\ UNCHANGED <<app_vars, editors, pc, pending>>

\* the spinbox "Window (min)"
SetWindowMinutes(n) ==
    /\ window_minutes_var' = n
    /\ UNCHANGED <<window, window_minutes, fixed_start_ts, unlimited, stats, appended, lastOp>>
    /\ UNCHANGED <<run_vars, time_preset_var, from_start_var, refresh_secs_var>>
    /\ UNCHANGED <<app_vars, editors, pc, pending>>

\* the spinbox "Refresh (sec)"
SetRefreshSecs(n) ==
    /\ refresh_secs_var' = n
    /\ UNCHANGED <<window, window_minutes, fixed_start_ts, unlimited, stats, appended, lastOp>>
    /\ UNCHANGED <<run_vars, time_preset_var, from_start_var, window_minutes_var>>
    /\ UNCHANGED <<app_vars, editors, pc, pending>>

\* run(): one iteration that reads a loot line: self.add_event(ev)
WorkerReadsEvent(t, ev) ==
    /\ pc[t] = "iter"
    /\ Len(appended) < MaxEvents
    /\ window' = add_event(window, ev, window_minutes, fixed_start_ts, unlimited)
    /\ appended' = Append(appended, ev)
    /\ pc' = [pc EXCEPT ![t] = "loop"]
    /\ UNCHANGED <<window_minutes, fixed_start_ts, unlimited, stats, lastOp>>
    /\ UNCHANGED <<run_vars, settings_vars, app_vars, editors, pending>>

NextSettings ==
    \/ \E value \in PresetButtons : SetTimePreset(value)
    \/ ToggleFromStart
    \/ \E n \in 1..MaxWindowMinutes : SetWindowMinutes(n)
    \/ \E n \in 1..MaxRefreshSecs : SetRefreshSecs(n)
    \/ \E t \in Threads : StartMonitor(t)
    \/ StopMonitor
    \/ \E t \in Threads : WorkerOpens(t)
    \/ \E t \in Threads : WorkerChecksStop(t)
    \/ \E t \in Threads : WorkerIterates(t)
    \/ \E t \in Threads, ev \in SettingsEvent : WorkerReadsEvent(t, ev)

SpecSettings == InitSettingsSpec /\ [][NextSettings]_vars

\* ------------------------------------------------------------------------
\* SpecSession: one worker at a time from start_monitor to the end of run(),
\* on a log file that the game writes, with the payloads of the worker
\* handed to update_stats as they are.
\* ------------------------------------------------------------------------

\* the lines that the game writes: it writes some of them, in this order
SessionLog ==
    << [shape |-> TRUE, hour |-> 0, minute |-> 0, second |-> 0,
        quantity |-> 500, item |-> "Yang"],
       [shape |-> TRUE, hour |-> 0, minute |-> 0, second |-> 0,
        quantity |-> 1, item |-> "Hellish Pass"],
       [shape |-> TRUE, hour |-> 0, minute |-> 0, second |-> 7,
        quantity |-> 900, item |-> "Shard"],
       [shape |-> TRUE, hour |-> 0, minute |-> 0, second |-> 7,
        quantity |-> 1, item |-> "Razador's Chest"] >>

\* the place of a line in SessionLog
SessionIndex(line) == CHOOSE k \in 1..Len(SessionLog) : SessionLog[k] = line

\* the pass of the menu calls of SpecSession
SessionNames == {"Hellish Pass"}

InitSession ==
    /\ InitApp
    /\ InitSettings
    /\ InitWorker
    /\ InitRun
    /\ lastOp = [op |-> "init", since_stop |-> None, published_at |-> <<>>]

\* the Tk main loop runs self.update_stats(stats) for the oldest payload
\* that schedule_update_stats queued
ScheduledUpdateStats ==
    /\ pending # <<>>
    /\ SetApp(update_stats(App, Head(pending)))
    /\ pending' = Tail(pending)
    /\ UNCHANGED <<window_vars, editors, pc>>

NextSession ==
    \/ StartMonitor(Reader)
    \/ StopMonitor
    \/ ReaderOpenFails
    \/ ReaderOpens
    \/ ReaderChecksStop
    \/ TailReadsLine
    \/ ReaderSkipsRefresh
    \/ ReaderRefreshes
    \/ \E k \in 1..Len(SessionLog) :
          /\ Len(log) < MaxLines
          /\ IF log = <<>> THEN TRUE ELSE SessionIndex(log[Len(log)]) < k
          /\ GameWritesLine(SessionLog[k])
    \/ ScheduledUpdateStats
    \/ \E name \in SessionNames : SetPassAllCrafted(name)
    \/ \E name \in SessionNames : SetPassAllDropped(name)

SpecSession == InitSession /\ [][NextSession]_vars

\* ------------------------------------------------------------------------
\* Properties of the window (SpecWindow, SpecCompute)
\* ------------------------------------------------------------------------

\* the timestamps of s never decrease
NonDecreasing(s) == \A i \in 1..(Len(s) - 1) : s[i].ts <= s[i + 1].ts

\* no fixed start, not unlimited
TrailingMode == ~unlimited /\ fixed_start_ts = None

\* the events of s at or after the time t, in the order of s
AtOrAfter(s, t) == SelectSeq(s, LAMBDA e : e.ts >= t)

RECURSIVE SumQuantity(_, _)
\* the sum of the quantities of the events of w at the positions I
SumQuantity(w, I) ==
    IF I = {} THEN 0
    ELSE LET i == CHOOSE j \in I : TRUE IN w[i].quantity + SumQuantity(w, I \ {i})

\* the positions of w that hold an event of the item name
PositionsOf(w, name) == {i \in 1..Len(w) : w[i].item = name}

\* C1: in trailing mode, while the appended events have non-decreasing
\* timestamps, the window after each add_event holds exactly the appended
\* events whose timestamp is >= (timestamp of the last appended event -
\* window_minutes), in arrival order.
C1_TrailingWindowExact ==
    (TrailingMode /\ appended # <<>> /\ NonDecreasing(appended)) =>
        window = AtOrAfter(appended,
                           appended[Len(appended)].ts - window_minutes * SecondsPerMinute)

\* C1 witness: three events in time order, the oldest evicted, and the
\* first retained one lies exactly on the cutoff
C1_Witness ==
    /\ TrailingMode
    /\ NonDecreasing(appended)
    /\ Len(appended) = 3
    /\ Len(window) = 2
    /\ window[1].ts = appended[3].ts - window_minutes * SecondsPerMinute

\* a fixed start is set and the worker is not unlimited
FixedStartMode == ~unlimited /\ fixed_start_ts # None

\* C13: in fixed-start mode, while the appended events have non-decreasing
\* timestamps, the window after each add_event holds exactly the appended
\* events with timestamp >= fixed_start_ts, whatever window_minutes is; it
\* is empty after an event older than the fixed start.
C13_FixedStartWindowExact ==
    (FixedStartMode /\ NonDecreasing(appended)) =>
        window = AtOrAfter(appended, fixed_start_ts[1])

\* C13 witness: window_minutes is 1, the event before the fixed start is
\* gone, the event on the fixed start is kept although the last event is
\* more than a minute later
C13_Witness ==
    /\ FixedStartMode
    /\ window_minutes = 1
    /\ NonDecreasing(appended)
    /\ Len(appended) = 3
    /\ appended[1].ts < fixed_start_ts[1]
    /\ Len(window) = 2
    /\ window[1].ts = fixed_start_ts[1]
    /\ window[2].ts > window[1].ts + window_minutes * SecondsPerMinute

\* C14: an unlimited worker never removes an event: the window is the
\* sequence of the appended events in arrival order, whatever the
\* timestamps, window_minutes and fixed_start_ts are.
C14_UnlimitedKeepsAll == unlimited => window = appended

\* C14 witness: an unlimited worker with a fixed start holds three events
\* out of time order, one before the fixed start and more than
\* window_minutes before the last one
C14_Witness ==
    /\ unlimited
    /\ fixed_start_ts # None
    /\ Len(appended) = 3
    /\ window = appended
    /\ ~NonDecreasing(appended)
    /\ appended[1].ts < fixed_start_ts[1]
    /\ appended[1].ts < appended[3].ts - window_minutes * SecondsPerMinute

\* C10: for a non-empty window compute_stats_from_window returns total_yang
\* = the sum of the quantities of the events whose item is exactly "Yang",
\* and an items list with exactly one entry per distinct non-Yang item name
\* of the window, carrying the sum of that name's quantities; "Yang" is not
\* in the list.
C10_ComputeTotals ==
    (lastOp.op = "compute_stats_from_window" /\ window # <<>>) =>
        /\ stats # None
        /\ LET s     == stats[1]
               names == {window[i].item : i \in 1..Len(window)} \ {"Yang"}
           IN  /\ s.total_yang = SumQuantity(window, PositionsOf(window, "Yang"))
               /\ {s.items[k][1] : k \in 1..Len(s.items)} = names
               /\ Len(s.items) = Cardinality(names)
               /\ \A k \in 1..Len(s.items) :
                    s.items[k][2] = SumQuantity(window, PositionsOf(window, s.items[k][1]))

\* C10 witness: a computed window with Yang and two lines of one other item
C10_Witness ==
    /\ lastOp.op = "compute_stats_from_window"
    /\ Len(window) = 3
    /\ stats[1].total_yang > 0
    /\ \E n \in {"Shard", "Hellish Pass"} : Cardinality(PositionsOf(window, n)) = 2

\* the position in w of the first event of the item name
FirstSeen(w, name) ==
    CHOOSE i \in PositionsOf(w, name) : \A j \in PositionsOf(w, name) : i <= j

\* C16: the items of a snapshot are ordered by quantity descending, items of
\* equal quantity in the order in which their names first occur in the
\* window; the rows that the consumer renders from it keep that order.
C16_ItemsSortedStable ==
    (lastOp.op = "compute_stats_from_window" /\ stats # None) =>
        LET items == stats[1].items
            rows  == update_stats(App, stats[1]).tree
        IN  /\ \A k, l \in 1..Len(items) :
                  k < l =>
                     \/ items[k][2] > items[l][2]
                     \/ /\ items[k][2] = items[l][2]
                        /\ FirstSeen(window, items[k][1]) < FirstSeen(window, items[l][1])
            /\ Len(rows) = Len(items)
            /\ \A k \in 1..Len(items) : rows[k].name = items[k][1]

\* C16 witness: two items of equal quantity, the one seen first is not the
\* one whose events came last, and it is listed first
C16_Witness ==
    /\ lastOp.op = "compute_stats_from_window"
    /\ Len(window) = 3
    /\ window[1].item = "Shard"
    /\ window[2].item = "Hellish Pass"
    /\ window[3].item = "Hellish Pass"
    /\ Len(stats[1].items) = 2
    /\ stats[1].items[1][1] = "Shard"
    /\ stats[1].items[1][2] = stats[1].items[2][2]

\* ------------------------------------------------------------------------
\* Properties of LootMonitorApp (Spec)
\* ------------------------------------------------------------------------

DroppedInputs == (-1)..MaxDropped

\* the step is update_stats run from the event queue on a snapshot: no other
\* step takes a callback off the queue
SnapshotStep == pending # <<>> /\ Head(pending) = "stats" /\ pending' = Tail(pending)

\* the step is a start_monitor that creates a worker
StartStep == worker = 0 /\ worker' # 0

\* the step is a reclassification call that gets past its early returns
ReclassStep ==
    \/ \E name \in CallNames :
          /\ name \in DOMAIN pass_states
          /\ SetPassAllCrafted(name) \/ SetPassAllDropped(name)
    \/ /\ get_last_seen_pass(App) # None
       /\ pass_states[get_last_seen_pass(App)[1]].crafted > 0
       /\ IncrementLastPassDropped
    \/ \E i \in 1..Len(editors), d \in DroppedInputs :
          /\ InRange(App, editors[i], d)
          /\ EditorApply(i, d)

\* the sum over the tracked pass types of crafted count x currency cost
CraftedYangCost(ps) ==
    LET Sum[S \in SUBSET DOMAIN ps] ==
            IF S = {} THEN 0
            ELSE LET n == CHOOSE x \in S : TRUE
                 IN  ps[n].crafted * PASS_COSTS[n].yang + Sum[S \ {n}]
    IN  Sum[DOMAIN ps]

\* last_stats is a snapshot, not None and not an error payload
HasSnapshot == last_stats # None /\ "error" \notin DOMAIN last_stats[1]

\* the quantity of name in the items of the snapshot s, None when absent
SnapshotQty(s, name) ==
    IF \E k \in 1..Len(s.items) : s.items[k][1] = name
    THEN Some(s.items[CHOOSE k \in 1..Len(s.items) : s.items[k][1] = name][2])
    ELSE None

\* C2: in every reachable state every entry of pass_states has
\* crafted + dropped = total, crafted >= 0 and dropped >= 0.
C2_PassStateSplit ==
    \A n \in DOMAIN pass_states :
        /\ pass_states[n].crafted + pass_states[n].dropped = pass_states[n].total
        /\ pass_states[n].crafted >= 0
        /\ pass_states[n].dropped >= 0

\* C2 witness: a pass with a partial split next to a pass that was set all
\* dropped, in a second session
C2_Witness ==
    /\ "Hellish Pass" \in DOMAIN pass_states
    /\ "Ice-cold Pass" \in DOMAIN pass_states
    /\ pass_states["Hellish Pass"] = [total |-> 2, crafted |-> 1, dropped |-> 1]
    /\ pass_states["Ice-cold Pass"] = [total |-> 1, crafted |-> 0, dropped |-> 1]
    /\ \E i \in 1..Len(editors) : ~editors[i].live

\* C3: after every processed non-error snapshot and after every
\* reclassification call, net_yang = the snapshot's total_yang - the sum
\* over the tracked pass types of crafted x currency cost.
C3_NetYangAfterEveryCall ==
    [][(SnapshotStep \/ ReclassStep) =>
          (/\ HasSnapshot
           /\ net_yang = last_stats[1].total_yang - CraftedYangCost(pass_states))']_vars

\* C4: whenever update_stats finishes a non-error snapshot S, the net
\* currency per hour and per minute are (S.total_yang - D) / S.hours and
\* (S.total_yang - D) / S.minutes, D being the crafting currency delta that
\* the same call used for net_yang.
C4_NetRatesUseCurrentDelta ==
    [][SnapshotStep =>
          (/\ net_yang = last_stats[1].total_yang - crafting_yang_delta
           /\ net_yang_per_hour =
                Rate(last_stats[1].total_yang - crafting_yang_delta, last_stats[1].hours)
           /\ net_yang_per_minute =
                Rate(last_stats[1].total_yang - crafting_yang_delta, last_stats[1].minutes))']_vars

\* C5: when a tick reports qty > state.total for a tracked pass type, delta
\* = qty - state.total is added to total and to crafted and dropped is left
\* alone.
C5_GrowthKeepsDropped ==
    [][SnapshotStep =>
          \A n \in DOMAIN pass_states :
              LET q == SnapshotQty(last_stats'[1], n) IN
              (q # None /\ q[1] > pass_states[n].total) =>
                  /\ pass_states'[n].total = q[1]
                  /\ pass_states'[n].crafted =
                         pass_states[n].crafted + (q[1] - pass_states[n].total)
                  /\ pass_states'[n].dropped = pass_states[n].dropped]_vars

\* C5 witness: a pass seen with total 1 and set all dropped grew to 2 in a
\* tick: the tick took its rates with the delta of before the growth (0),
\* a reclassification of a total of 2 would have refreshed them
C5_Witness ==
    /\ "Hellish Pass" \in DOMAIN pass_states
    /\ pass_states["Hellish Pass"] = [total |-> 2, crafted |-> 1, dropped |-> 1]
    /\ DOMAIN pass_states = {"Hellish Pass"}
    /\ HasSnapshot
    /\ SnapshotQty(last_stats[1], "Hellish Pass") = Some(2)
    /\ net_yang_per_hour = Rate(base_yang, last_stats[1].hours)

\* C6: a PassState entry is created only for a name that is a key of
\* PASS_COSTS and is in the snapshot being processed, as {total: qty,
\* crafted: qty, dropped: 0}; no other name (a sub-item of a recipe, any
\* other item) ever has an entry.
C6_OnlyCostTableKeysTracked ==
    /\ [](DOMAIN pass_states \subseteq DOMAIN PASS_COSTS)
    /\ [][\A n \in DOMAIN pass_states' \ DOMAIN pass_states :
              /\ n \in DOMAIN PASS_COSTS
              /\ HasSnapshot'
              /\ SnapshotQty(last_stats'[1], n) # None
              /\ LET q == SnapshotQty(last_stats'[1], n)[1] IN
                 pass_states'[n] = [total |-> q, crafted |-> q, dropped |-> 0]]_vars

\* C6 witness: a snapshot with a pass and a sub-item of a recipe was
\* processed, the pass is tracked and the sub-item is not
C6_Witness ==
    /\ HasSnapshot
    /\ Keys(base_items) = {"Shard", "Ice-cold Pass"}
    /\ DOMAIN pass_states = {"Ice-cold Pass"}
    /\ pass_states["Ice-cold Pass"] = [total |-> 1, crafted |-> 1, dropped |-> 0]

\* C7: a reclassification request for a tracked pass type with a dropped
\* count < 0 or > total is rejected with nothing changed; with a dropped
\* count in [0, total] it sets dropped to that count and crafted to total -
\* dropped.
C7_EditorApplyRange ==
    [][\A i \in 1..Len(editors), d \in DroppedInputs :
          (editors[i].name \in DOMAIN pass_states /\ EditorApply(i, d)) =>
              LET n     == editors[i].name
                  total == pass_states[n].total
              IN  IF d < 0 \/ d > total
                  THEN UNCHANGED app_vars
                  ELSE /\ n \in DOMAIN pass_states'
                       /\ pass_states'[n].dropped = d
                       /\ pass_states'[n].crafted = total - d]_vars

C9_ReclassifyIdempotent ==
    /\ \A name \in CallNames :
          /\ set_pass_all_crafted(set_pass_all_crafted(App, name), name)
                = set_pass_all_crafted(App, name)
          /\ set_pass_all_dropped(set_pass_all_dropped(App, name), name)
                = set_pass_all_dropped(App, name)
    /\ \A i, j \in 1..Len(editors), d \in DroppedInputs :
          (i # j /\ editors[i].name = editors[j].name) =>
              apply(apply(App, editors[i], d), editors[j], d) = apply(App, editors[i], d)

\* the sum of the quantities of the items of the snapshot s at the positions I
SumItems(s, I) ==
    LET Sum[S \in SUBSET I] ==
            IF S = {} THEN 0
            ELSE LET k == CHOOSE x \in S : TRUE IN s.items[k][2] + Sum[S \ {k}]
    IN  Sum[I]

\* the positions of the items of s that are chests, of the dungeon c
ChestPositions(s) == {k \in 1..Len(s.items) : s.items[k][1] \in DOMAIN DUNGEON_CHESTS}
ChestPositionsOf(s, c) == {k \in ChestPositions(s) : DUNGEON_CHESTS[s.items[k][1]] = c}

\* C17: after every processed non-error snapshot each dungeon count is the
\* sum of the snapshot's quantities of the chests of that dungeon, dungeons
\* with no chest in the snapshot are absent, and the grand total is the sum
\* of the counts; nothing of an earlier tick stays.
C17_DungeonTallyFromSnapshot ==
    [][SnapshotStep =>
          LET s == last_stats'[1]
              dungeons == {DUNGEON_CHESTS[s.items[k][1]] : k \in ChestPositions(s)}
          IN  /\ DOMAIN dungeon_runs' = dungeons
              /\ \A c \in dungeons : dungeon_runs'[c] = SumItems(s, ChestPositionsOf(s, c))
              /\ total_dungeon_runs' = SumItems(s, ChestPositions(s))]_vars

\* C17 witness: a snapshot with a chest and another item was processed
C17_Witness ==
    /\ HasSnapshot
    /\ Keys(base_items) = {"Shard", "Razador's Chest"}
    /\ last_stats[1].items[2][1] = "Razador's Chest"
    /\ dungeon_runs = ("Razador" :> 1)
    /\ total_dungeon_runs = 1
    /\ worker # 0

\* the quantity of the item i that the tracked passes with crafted > 0 cost
CraftedItemCost(ps, i) ==
    LET P == {n \in DOMAIN ps : ps[n].crafted > 0}
        Sum[S \in SUBSET P] ==
            IF S = {} THEN 0
            ELSE LET n == CHOOSE x \in S : TRUE
                 IN  (IF i \in DOMAIN PASS_COSTS[n].items
                      THEN ps[n].crafted * PASS_COSTS[n].items[i] ELSE 0) + Sum[S \ {n}]
    IN  Sum[P]

\* C18: the deltas left by recalc_crafting_deltas_from_passes are those of
\* the PassState alone: for each item name the per-item delta is the sum
\* over the tracked passes with crafted > 0 of crafted x the quantity of the
\* item in the recipe, and the currency delta is the sum of crafted x
\* currency cost.  Every handler ends after a recalc, so this holds in every
\* state.
C18_DeltasFromPassStates ==
    /\ crafting_yang_delta = CraftedYangCost(pass_states)
    /\ \A i \in DOMAIN crafting_item_delta
                  \cup UNION {DOMAIN PASS_COSTS[n].items : n \in DOMAIN PASS_COSTS} :
          Get(crafting_item_delta, i, 0) = CraftedItemCost(pass_states, i)

\* C18 witness: two passes with crafted > 0 whose recipes share "Shard"
C18_Witness ==
    /\ DOMAIN pass_states = {"Hellish Pass", "Ice-cold Pass"}
    /\ pass_states["Hellish Pass"].crafted = 2
    /\ pass_states["Ice-cold Pass"].crafted = 1
    /\ crafting_item_delta["Shard"] = 1000
    /\ crafting_item_delta["Fragment of a Pass [U-1]"] = 2
    /\ crafting_yang_delta = 5500000

\* r is int(x) for the quotient x = num / den, den > 0: x cut towards zero
IsTruncationOf(r, num, den) ==
    IF num >= 0
    THEN r * den <= num /\ num < (r + 1) * den
    ELSE (r - 1) * den < num /\ num <= r * den

\* the step renders the item list: a snapshot tick, or a reclassification
\* that changes a row
RenderStep == SnapshotStep \/ (tree' # tree /\ tree' # <<>>)

\* C19: the rendered row of every item of the current snapshot has net
\* quantity = raw quantity - per-item crafting delta (0 without a delta),
\* not clamped at 0, and net rate = int(raw rate - crafting delta / hours)
\* with the hours of that snapshot.
C19_NetQuantityNotClamped ==
    [][RenderStep =>
          /\ HasSnapshot'
          /\ LET s == last_stats'[1]
                 h == s.hours
             IN  /\ Len(tree') = Len(s.items)
                 /\ \A k \in 1..Len(s.items) :
                       LET name  == s.items[k][1]
                           delta == Get(crafting_item_delta', name, 0)
                       IN  /\ tree'[k].name = name
                           /\ tree'[k].adjusted_qty = s.items[k][2] - delta
                           /\ IsTruncationOf(tree'[k].net_per_hour,
                                             s.items[k][3] * h[1] - delta * h[2], h[1])]_vars

\* C19 witness: the crafted passes cost more "Shard" than the snapshot
\* holds, the row of "Shard" is negative in quantity and in rate
C19_Witness ==
    /\ HasSnapshot
    /\ crafting_item_delta # EmptyDict
    /\ \E k \in 1..Len(tree) :
          /\ tree[k].name = "Shard"
          /\ tree[k].adjusted_qty = 300 - crafting_item_delta["Shard"]
          /\ tree[k].adjusted_qty < 0
          /\ tree[k].net_per_hour < 0

\* the step is update_stats run from the event queue on an error payload
ErrorStep == pending # <<>> /\ Head(pending) = "error" /\ pending' = Tail(pending)

\* C20: a reader whose open() fails passes one error payload to the
\* callback and terminates, without a snapshot and without a retry: its
\* thread runs again only when start_monitor starts a new session; when the
\* consumer processes the error it sets the stop event of the current worker
\* and clears self.worker.
C20_OpenFailureEndsSession ==
    [][/\ \A t \in Threads :
             /\ (pc[t] = "open" /\ pc'[t] # "open") =>
                    \/ pc'[t] = "idle" /\ pending' = Append(pending, "error")
                    \/ pc'[t] = "loop" /\ pending' = pending
             /\ (pc[t] = "idle" /\ pc'[t] # "idle") =>
                    /\ worker = 0
                    /\ worker' = t
                    /\ pc'[t] = "open"
                    /\ pass_states' = EmptyDict
       /\ ErrorStep =>
             /\ last_stats' = Some(ErrorPayload)
             /\ worker' = 0
             /\ worker # 0 => worker \in stop_events'
             /\ pass_states' = pass_states]_vars

\* C20 witness: the first start failed to open the file, the error was
\* processed, the thread is over and Start is possible again
C20_Witness ==
    /\ last_stats = Some(ErrorPayload)
    /\ worker = 0
    /\ \A t \in Threads : pc[t] = "idle"
    /\ pending = <<>>
    /\ pass_states = EmptyDict
    /\ stop_events # {}

\* yang, items and rates are the raw figures of the snapshot s
RawFiguresOf(s, yang, items, rates) ==
    /\ yang = s.total_yang
    /\ items = [i \in 1..Len(s.items) |-> <<s.items[i][1], s.items[i][2]>>]
    /\ rates =
          [n \in {s.items[i][1] : i \in 1..Len(s.items)} |->
              s.items[CHOOSE i \in 1..Len(s.items) : s.items[i][1] = n][3]]

\* C29: update_stats on a snapshot stores that snapshot, as the worker
\* computed it, in last_stats and takes the raw figures from it; every
\* reclassification call that gets past its early returns leaves
\* last_stats, base_yang, base_items and base_item_rates unchanged and
\* changes the PassState of at most one pass type, creating none.
C29_SnapshotAndRawFiguresKept ==
    [][/\ SnapshotStep =>
             /\ HasSnapshot'
             /\ last_stats'[1] \in SnapshotInputs
             /\ RawFiguresOf(last_stats'[1], base_yang', base_items', base_item_rates')
       /\ ReclassStep =>
             /\ UNCHANGED <<last_stats, base_yang, base_items, base_item_rates>>
             /\ DOMAIN pass_states' = DOMAIN pass_states
             /\ Cardinality({n \in DOMAIN pass_states :
                               pass_states'[n] # pass_states[n]}) <= 1]_vars

\* the total of the PassState of name, 0 without an entry
TotalOf(ps, name) == IF name \in DOMAIN ps THEN ps[name].total ELSE 0

\* the quantity of name in the snapshot s, 0 when absent
ReportedQty(s, name) == IF SnapshotQty(s, name) = None THEN 0 ELSE SnapshotQty(s, name)[1]

\* C30: between two start_monitor resets no PassState is removed and no
\* total decreases; totals change in update_stats on a snapshot only, where
\* the total of a pass becomes the larger of the old total and the quantity
\* in the snapshot; an entry whose pass is reported with a quantity at or
\* below its total, or not at all, is left as it is, and the cost of the
\* crafted passes of all entries is what net_yang and the net quantities of
\* the rows lack.
C30_TotalIsLargestReported ==
    [][/\ ~StartStep =>
             \A n \in DOMAIN pass_states :
                n \in DOMAIN pass_states' /\ pass_states'[n].total >= pass_states[n].total
       /\ (~StartStep /\ ~SnapshotStep) =>
             /\ DOMAIN pass_states' = DOMAIN pass_states
             /\ \A n \in DOMAIN pass_states : pass_states'[n].total = pass_states[n].total
       /\ SnapshotStep =>
             LET s == last_stats'[1] IN
             /\ \A n \in DOMAIN PASS_COSTS :
                   /\ TotalOf(pass_states', n) =
                         Max(TotalOf(pass_states, n), ReportedQty(s, n))
                   /\ (n \in DOMAIN pass_states
                        /\ ReportedQty(s, n) <= pass_states[n].total) =>
                           pass_states'[n] = pass_states[n]
             /\ net_yang' = s.total_yang - CraftedYangCost(pass_states')
             /\ \A k \in 1..Len(tree') :
                   tree'[k].adjusted_qty =
                      ReportedQty(s, tree'[k].name) - CraftedItemCost(pass_states', tree'[k].name)]_vars

\* C32: in every reachable state in which a pass has a PassState entry, the
\* stored last payload is a snapshot and not an error payload, so that a
\* reclassification that takes effect re-processes a snapshot.
C32_EntryImpliesSnapshot == pass_states # EmptyDict => HasSnapshot

\* the places in the item order of the last processed snapshot that hold a
\* tracked pass
TrackedPlaces == {i \in 1..Len(base_items) : base_items[i][1] \in DOMAIN pass_states}

\* the tracked pass that comes last in that order, when there is one
LastTracked == base_items[CHOOSE i \in TrackedPlaces : \A j \in TrackedPlaces : j <= i][1]

\* C33: base_items keeps the items of the snapshot in last_stats in their
\* order whenever a pass is tracked and last_stats is a snapshot.  "+1
\* Dropped" looks only at the tracked pass that comes last in that order:
\* when its crafted count is above 0, one unit goes from crafted to dropped,
\* its total and every other PassState stay, and the crafting deltas are
\* those of the new PassState; when its crafted count is 0 or no item of the
\* order is a tracked pass, nothing of the consumer changes.
C33_PlusOneDroppedOnLastPass ==
    /\ [](pass_states # EmptyDict /\ HasSnapshot =>
             /\ Len(base_items) = Len(last_stats[1].items)
             /\ \A k \in 1..Len(base_items) :
                   /\ base_items[k][1] = last_stats[1].items[k][1]
                   /\ base_items[k][2] = last_stats[1].items[k][2])
    /\ [][IncrementLastPassDropped =>
            IF TrackedPlaces # {} /\ pass_states[LastTracked].crafted > 0
            THEN /\ pass_states' =
                       [pass_states EXCEPT ![LastTracked].crafted = @ - 1,
                                           ![LastTracked].dropped = @ + 1]
                 /\ pass_states'[LastTracked].total = pass_states[LastTracked].total
                 /\ crafting_yang_delta' = CraftedYangCost(pass_states')
                 /\ \A i \in DOMAIN crafting_item_delta'
                               \cup UNION {DOMAIN PASS_COSTS[n].items : n \in DOMAIN PASS_COSTS} :
                       Get(crafting_item_delta', i, 0) = CraftedItemCost(pass_states', i)
            ELSE UNCHANGED app_vars]_vars

\* C33 witness: two tracked passes in the item order; the one that comes
\* last has given all its units to dropped, the other one still has
\* crafted > 0
C33_Witness ==
    /\ Cardinality(TrackedPlaces) = 2
    /\ pass_states[LastTracked].crafted = 0
    /\ pass_states[LastTracked].dropped > 0
    /\ \E i \in TrackedPlaces : pass_states[base_items[i][1]].crafted > 0

\* ------------------------------------------------------------------------
\* Properties of start_monitor (SpecSettings)
\* ------------------------------------------------------------------------

\* C24: a start_monitor while the selected preset is the custom one (the
\* initial selection "Custom" or the value "custom" of the button) creates
\* the worker with fixed_start_ts = now - window_minutes, not unlimited.
C24_CustomPresetFixedStart ==
    [][(StartStep /\ time_preset_var \in {"Custom", "custom"}) =>
          /\ fixed_start_ts' = Some(clock - window_minutes_var * SecondsPerMinute)
          /\ ~unlimited']_vars

\* C25: a start_monitor under the all-time preset creates an unlimited
\* worker that reads from the beginning, whatever the checkbox says; the
\* retention settings of the worker change in no other step; and the
\* window is at every moment what the one policy selected by them keeps:
\* everything (unlimited), else the events at or after the fixed start,
\* else the events at most window_minutes before the last one.
C25_AllTimeAndOnePolicy ==
    /\ [][/\ (StartStep /\ time_preset_var = "alltime") =>
                (unlimited' /\ fixed_start_ts' = None /\ from_start' /\ window' = <<>>)
          /\ ~StartStep =>
                UNCHANGED <<window_minutes, fixed_start_ts, unlimited, from_start>>]_vars
    /\ [](unlimited => window = appended)
    /\ []((FixedStartMode /\ NonDecreasing(appended)) =>
             window = AtOrAfter(appended, fixed_start_ts[1]))
    /\ []((TrailingMode /\ appended # <<>> /\ NonDecreasing(appended)) =>
             window = AtOrAfter(appended,
                                appended[Len(appended)].ts - window_minutes * SecondsPerMinute))

\* an all-time session with the checkbox off again holds events that the
\* other two policies would have dropped
C25_Witness ==
    /\ worker # 0
    /\ time_preset_var = "alltime"
    /\ unlimited
    /\ from_start
    /\ ~from_start_var
    /\ Len(window) = 3
    /\ window[1].ts < window[3].ts - window_minutes * SecondsPerMinute

\* ------------------------------------------------------------------------
\* Properties of LiveMonitorWorker.run (SpecReader)
\* ------------------------------------------------------------------------

\* the step passes a payload to update_callback
ReaderPublishes == Len(pending') > Len(pending)

\* C11: compute_stats_from_window returns None exactly when the window is
\* empty, and every non-error payload that the reader passes to the callback
\* is the stats of its window at that moment, a window of at least one event.
C11_NoSnapshotOfEmptyWindow ==
    /\ [](lastOp.op = "compute_stats_from_window" => (stats = None <=> window = <<>>))
    /\ [][ReaderPublishes =>
            LET payload == pending'[Len(pending')] IN
            \/ payload = ErrorPayload /\ pc[Reader] = "open"
            \/ /\ window # <<>>
               /\ Some(payload) = compute_stats_from_window(window)
               /\ pending' = Append(pending, payload)]_vars

\* C11 witness: in fixed-start mode the reader appended an event older than
\* the start, computed on the empty window and published nothing
C11_Witness ==
    /\ lastOp.op = "compute_stats_from_window"
    /\ appended # <<>>
    /\ window = <<>>
    /\ stats = None
    /\ pending = <<>>
    /\ pc[Reader] = "loop"

\* C12: in every snapshot the elapsed time is max(1 second, last timestamp -
\* first timestamp), so it is > 0 and the consumer divides by the snapshot's
\* hours and minutes; when all events of the window share one timestamp the
\* per-hour rates are the quantities x 3600 and the currency per-minute rate
\* is total_yang x 60.
C12_ElapsedAtLeastOneSecond ==
    (lastOp.op = "compute_stats_from_window" /\ stats # None) =>
        LET s    == stats[1]
            diff == window[Len(window)].ts - window[1].ts
            span == IF diff >= 1 THEN diff ELSE 1
            a    == update_stats(App, s)
        IN  /\ span > 0
            /\ s.hours = <<span, SecondsPerHour>>
            /\ s.minutes = <<span, SecondsPerMinute>>
            /\ a.data_hours = s.hours
            /\ a.net_yang_per_hour.per = s.hours
            /\ a.net_yang_per_minute.per = s.minutes
            /\ (\A i, j \in 1..Len(window) : window[i].ts = window[j].ts) =>
                  /\ s.yang_per_hour = s.total_yang * SecondsPerHour
                  /\ s.yang_per_minute = s.total_yang * SecondsPerMinute
                  /\ \A k \in 1..Len(s.items) :
                        s.items[k][3] = s.items[k][2] * SecondsPerHour

\* C12 witness: the stats of a window of two events with one timestamp
C12_Witness ==
    /\ lastOp.op = "compute_stats_from_window"
    /\ Len(window) = 2
    /\ window[1].ts = window[2].ts
    /\ stats # None
    /\ stats[1].total_yang = MaxQty
    /\ stats[1].yang_per_minute = MaxQty * SecondsPerMinute
    /\ Len(stats[1].items) = 1
    /\ stats[1].items[1][3] = stats[1].items[1][2] * SecondsPerHour

\* w is s without its first k events, for some k
IsSuffix(w, s) == \E k \in 0..Len(s) : w = SubSeq(s, k + 1, Len(s))

\* C15: under every retention policy and for every input the window is a
\* contiguous suffix of the events appended so far, in arrival order, and
\* it changes only in the step of run() that calls add_event.
C15_WindowIsSuffix ==
    /\ [](IsSuffix(window, appended))
    /\ [][window' # window =>
            /\ pc[Reader] = "iter"
            /\ lastOp'.op = "readline"
            /\ Len(appended') = Len(appended) + 1
            /\ SubSeq(appended', 1, Len(appended)) = appended]_vars

\* C15 witness: events out of time order were appended, the front was
\* evicted and a non-empty suffix is left
C15_Witness ==
    /\ ~unlimited
    /\ ~NonDecreasing(appended)
    /\ Len(appended) = MaxEvents
    /\ window # <<>>
    /\ Len(window) < Len(appended)
    /\ lastOp.op = "compute_stats_from_window"

Delivered(n) ==
    /\ lastOp.op = "compute_stats_from_window"
    /\ Len(appended) >= n
    /\ \/ window = <<>>
       \/ stats = compute_stats_from_window(window)

\* C34: under fair scheduling, each event that a reader appends to its
\* window is later evicted or part of a published snapshot, unless the
\* stop event is set.
C34_PublicationLiveness ==
    \A n \in 1..MaxEvents :
        (Len(appended) = n) ~> (Delivered(n) \/ Reader \in stop_events)

\* ------------------------------------------------------------------------
\* Properties of the reader on its file (SpecTail)
\* ------------------------------------------------------------------------

\* the step in which f.readline() gave a line: the line is log[pos']
ReadsALine == pc[Reader] = "iter" /\ pos' = pos + 1

\* C22: reading a line that LOG_LINE_RE does not match leaves the window
\* and the events of the reader unchanged, queues no payload and takes the
\* reader to the refresh test of the same iteration; and an event is
\* appended only by reading a line that parse_log_line turns into that event.
C22_UnmatchedLineSkipped ==
    [][/\ (ReadsALine /\ ~log[pos'].shape) =>
             /\ window' = window
             /\ appended' = appended
             /\ pending' = pending
             /\ pc'[Reader] = "tick"
       /\ appended' # appended =>
             /\ ReadsALine
             /\ parse_log_line(log[pos']).kind = "event"
             /\ appended' = Append(appended, parse_log_line(log[pos']).ev)]_vars

\* the reader holds an event and has just read a line without a match
C22_Witness ==
    /\ pos >= 2
    /\ ~log[pos].shape
    /\ lastOp.op = "readline"
    /\ pc[Reader] = "tick"
    /\ window # <<>>

RECURSIVE Events(_)
\* the events of the lines that parse_log_line turns into one, in order
Events(lines) ==
    IF lines = <<>> THEN <<>>
    ELSE LET r == parse_log_line(Head(lines))
         IN  (IF r.kind = "event" THEN <<r.ev>> ELSE <<>>) \o Events(Tail(lines))

\* the lines that were in the file when the reader opened it
OldCount == Cardinality({i \in 1..Len(log) : log[i].item = "Yang"})

\* the reader has opened the file
Opened == Running \/ pc[Reader] = "crashed" \/ (pc[Reader] = "done" /\ Reader \in stop_events)

\* the snapshot counts a line that names "Yang"
OfOldLine(payload) == payload.total_yang # 0

\* C23: with from_start false the events given to add_event are those of
\* the lines after the end that the file had when it was opened, so no
\* event of an earlier line is in the window, in stats or in a queued
\* snapshot; with from_start true they are the events of all lines read
\* from the first line on, in the order of the file.
C23_StartPosition ==
    Opened =>
        LET start == IF from_start THEN 0 ELSE OldCount
        IN  /\ start <= pos
            /\ pos <= Len(log)
            /\ appended = Events(SubSeq(log, start + 1, pos))
            /\ ~from_start =>
                  /\ \A i \in 1..Len(window) : window[i].item # "Yang"
                  /\ stats # None => ~OfOldLine(stats[1])
                  /\ \A i \in 1..Len(pending) : ~OfOldLine(pending[i])

\* a reader that started at the end of a file with a loot line in it, read
\* a new loot line and published
C23_Witness ==
    /\ ~from_start
    /\ \E i \in 1..Len(log) : log[i].item = "Yang" /\ parse_log_line(log[i]).kind = "event"
    /\ appended # <<>>
    /\ pending # <<>>

\* ------------------------------------------------------------------------
\* Properties of the refresh test of run() (SpecClock)
\* ------------------------------------------------------------------------

\* C26: every iteration that run() completes goes through the refresh test,
\* with or without a line read; the test fires exactly when refresh_secs
\* seconds or more have passed since last_print, and then it sets last_print
\* to the clock, computes the snapshot of the window as it is and queues it
\* unless it is None; otherwise nothing is computed or queued; and any two
\* consecutive snapshots of the reader are refresh_secs or more apart.
C26_RefreshInterval ==
    /\ [][(pc[Reader] = "iter" /\ pc'[Reader] # "iter") =>
             pc'[Reader] \in {"tick", "crashed"}]_vars
    /\ [][(pc[Reader] = "tick" /\ pc'[Reader] # "tick") =>
             /\ pc'[Reader] = "loop"
             /\ IF clock - last_print >= refresh_secs
                THEN /\ last_print' = clock
                     /\ stats' = compute_stats_from_window(window)
                     /\ pending' = IF stats' # None
                                   THEN Append(pending, stats'[1]) ELSE pending
                ELSE UNCHANGED <<last_print, stats, pending>>]_vars
    /\ [](\A i \in 1..(Len(lastOp.published_at) - 1) :
             lastOp.published_at[i + 1] - lastOp.published_at[i] >= refresh_secs)

\* two snapshots exactly refresh_secs = 2 apart, the second of a window
\* that changed in between
C26_Witness ==
    /\ refresh_secs = 2
    /\ Len(lastOp.published_at) = 2
    /\ lastOp.published_at[2] - lastOp.published_at[1] = 2
    /\ lastOp.op = "compute_stats_from_window"
    /\ Len(window) = 2

\* ------------------------------------------------------------------------
\* Properties of a session from its start (SpecSession)
\* ------------------------------------------------------------------------

\* C27: the step of a start_monitor that creates a worker leaves PassState,
\* the crafting deltas, the base figures, the net figures and the dungeon
\* tallies empty or zero, and the new worker has an empty window and has
\* not yet opened the file, so it has computed no snapshot.
C27_StartResetsSession ==
    [][StartStep =>
          /\ pass_states' = EmptyDict
          /\ pass_applied' = {}
          /\ crafting_yang_delta' = 0
          /\ crafting_item_delta' = EmptyDict
          /\ base_yang' = 0
          /\ base_items' = <<>>
          /\ base_item_rates' = EmptyDict
          /\ data_hours' = ZeroSpan
          /\ net_yang' = 0
          /\ net_yang_per_hour' = ZeroRate
          /\ net_yang_per_minute' = ZeroRate
          /\ dungeon_runs' = EmptyDict
          /\ total_dungeon_runs' = 0
          /\ window' = <<>>
          /\ stats' = None
          /\ pc'[worker'] = "open"]_vars

\* a session was just started after one that had processed a snapshot with
\* Yang and a pass in it
C27_Witness ==
    /\ worker # 0
    /\ pc[worker] = "open"
    /\ HasSnapshot
    /\ last_stats[1].total_yang > 0
    /\ \E k \in 1..Len(last_stats[1].items) : last_stats[1].items[k][1] = "Hellish Pass"
    /\ pass_states = EmptyDict
    /\ base_yang = 0
    /\ net_yang = 0

\* int(round(n / d)) for d > 0 and any n
RoundSigned(n, d) == IF n >= 0 THEN RoundDiv(n, d) ELSE -RoundDiv(-n, d)

\* the step renders the item list anew
SessionRenderStep == tree' # tree /\ tree' # <<>>

\* C28: the rate of an item that update_stats takes from the snapshot is
\* quantity / elapsed_hours exactly, and the net rate shown in a rendered
\* row is the rounding of (raw quantity - crafting delta) / elapsed_hours.
C28_RatesRoundedAtDisplayOnly ==
    [][(SessionRenderStep /\ HasSnapshot' /\ data_hours'[1] > 0) =>
          \A k \in 1..Len(tree') :
             LET name  == tree'[k].name
                 qty   == GetQty(base_items', name)
                 delta == Get(crafting_item_delta', name, 0)
             IN  /\ base_item_rates'[name] * data_hours'[1] = qty * data_hours'[2]
                 /\ tree'[k].net_per_hour =
                       RoundSigned((qty - delta) * data_hours'[2], data_hours'[1])]_vars

\* the runs of consecutive events of s
Infixes(s) == {SubSeq(s, i, j) : i \in 1..(Len(s) + 1), j \in 0..Len(s)}

\* the worker of the session has read events that, as its window, give the
\* snapshot payload
ProducedByCurrentReader(payload) ==
    \E w \in Infixes(appended) : compute_stats_from_window(w) = Some(payload)

\* the step runs the queued callback of a snapshot
AppliesSnapshot ==
    /\ pending # <<>>
    /\ pending' = Tail(pending)
    /\ Head(pending) # ErrorPayload

\* C31: every snapshot that update_stats applies was computed by the worker
\* of the session that is current when it is applied: the worker has read
\* the events of a window with that snapshot since the last start_monitor.
C31_SessionIsolation ==
    [][AppliesSnapshot => ProducedByCurrentReader(Head(pending))]_vars

=============================================================================
